---- MODULE Spec2Model ----
(***************************************************************************)
(* Telemetry charts of the F1-Dash frontend: the multi-channel telemetry   *)
(* chart (reference lap, delta estimator, cursor lookup), the speed chart  *)
(* (cursor lookup), the track map (corner detector, distance marker) and   *)
(* the application handlers that load telemetry into the three charts.     *)
(*                                                                         *)
(* Conventions of the model                                                *)
(*  - A number field holds a natural number, null (JavaScript null) or     *)
(*    undefined (the property is absent); the NaN that arithmetic on       *)
(*    undefined produces is the value NotANumber.                          *)
(*  - Arrays are sequences; JavaScript index i is TLA+ index i+1.          *)
(*  - calculateDelta returns seconds in the code; the model returns the    *)
(*    same quantity in milliseconds (seconds * 1000), so that both the     *)
(*    exact branch ((t1 - t0) / 1000) and the speed branch                 *)
(*    (speedDiff * 0.01) are integers.                                     *)
(*  - A lap object is a record whose field oid is its object identity      *)
(*    (=== in the code is equality of lap records in the model).           *)
(*  - A handler that throws leaves the assignments it made before the      *)
(*    throw in place and sets the chart's threw flag.                      *)
(***************************************************************************)
EXTENDS Integers, Sequences, FiniteSets, TLC

\* ------------------------------------------------------------------------
\* Values
\* ------------------------------------------------------------------------

\* JavaScript null.
null == 0 - 1

\* JavaScript undefined: the value read from a property the object lacks.
undefined == 0 - 2

\* JavaScript NaN as the result of integer arithmetic (no sample value,
\* delta or difference of the model reaches it).
NotANumber == 0 - 1000000000

\* v == null (loose comparison): true of null and of undefined.
Nullish(v) == v = null \/ v = undefined

\* One telemetry sample (the fields the modelled code reads).
Pt(d, t, s, px, py) ==
    [distance |-> d, time_ms |-> t, speed |-> s, x |-> px, y |-> py]

\* A lap object: oid is the object's identity, telemetry its sample array.
Lap(o, tel) == [oid |-> o, telemetry |-> tel]

\* JavaScript truthiness of a number-or-null value: null, undefined, NaN
\* and 0 are falsy.
Truthy(v) == ~Nullish(v) /\ v # NotANumber /\ v # 0

\* JavaScript ToNumber on an operand of "-": null is 0, undefined is NaN.
ToNumber(v) ==
    IF v = null THEN 0 ELSE IF v = undefined THEN NotANumber ELSE v

\* a - b on numbers: NaN when either operand is NaN.
Minus(a, b) ==
    IF a = NotANumber \/ b = NotANumber THEN NotANumber ELSE a - b

\* a * b on numbers: NaN when either operand is NaN.
Times(a, b) ==
    IF a = NotANumber \/ b = NotANumber THEN NotANumber ELSE a * b

\* Math.abs
Abs(n) == IF n < 0 THEN 0 - n ELSE n

\* d3.max(points, accessor) || fallback : the maximum of the values that
\* are neither null nor undefined (undefined when there is none), or the
\* fallback when there is none or when the maximum is 0.
RECURSIVE SeqMax(_, _)
SeqMax(vals, i) ==
    IF i > Len(vals) THEN undefined
    ELSE LET rest == SeqMax(vals, i + 1)
         IN  IF Nullish(vals[i]) THEN rest
             ELSE IF Nullish(rest) \/ vals[i] > rest THEN vals[i] ELSE rest

\* d3.max(...) ?? fallback: the fallback only when there is no value.
d3maxOrNullish(vals, fallback) ==
    LET m == SeqMax(vals, 1) IN IF ~Nullish(m) THEN m ELSE fallback

d3maxOr(vals, fallback) ==
    LET m == SeqMax(vals, 1) IN IF Truthy(m) THEN m ELSE fallback

\* The absent object reference (null / undefined lap or data object).
none == <<>>

\* lap.telemetry is present (a lap record without the field models a lap
\* object whose telemetry is null or undefined).
HasTelemetry(lap) == "telemetry" \in DOMAIN lap

\* l.telemetry || []
TelemetryOf(lap) == IF HasTelemetry(lap) THEN lap.telemetry ELSE <<>>

\* !lap.telemetry || lap.telemetry.length === 0
NoSamples(lap) == ~HasTelemetry(lap) \/ Len(lap.telemetry) = 0

\* Array.prototype.flatMap over the laps' telemetry arrays.
RECURSIVE FlatTelemetry(_, _)
FlatTelemetry(laps, i) ==
    IF i > Len(laps) THEN <<>>
    ELSE TelemetryOf(laps[i]) \o FlatTelemetry(laps, i + 1)

\* ------------------------------------------------------------------------
\* Nearest-sample lookup: lap.telemetry.reduce((prev, curr) =>
\*     Math.abs(curr.distance - distance) < Math.abs(prev.distance - distance)
\*         ? curr : prev)
\* reduce without an initial value starts with prev = element 0 and visits
\* the elements from index 1 on; the result here is the index (1-based) of
\* the sample the reduce returns.  The array is non-empty at every call
\* site that guards with telemetry.length === 0.
\* ------------------------------------------------------------------------

\* The reduce with <= in place of <: among equally near samples the later
\* one wins.
RECURSIVE tcReduceOrEqual(_, _, _, _)
tcReduceOrEqual(telemetry, distance, prev, k) ==
    IF k > Len(telemetry) THEN prev
    ELSE tcReduceOrEqual(telemetry, distance,
                         IF Abs(telemetry[k].distance - distance)
                                <= Abs(telemetry[prev].distance - distance)
                         THEN k ELSE prev,
                         k + 1)

\* TelemetryChart.handleMouseMove, "Find closest point".
RECURSIVE tcReduce(_, _, _, _)
tcReduce(telemetry, distance, prev, k) ==
    IF k > Len(telemetry) THEN prev
    ELSE tcReduce(telemetry, distance,
                  IF Abs(telemetry[k].distance - distance)
                         < Abs(telemetry[prev].distance - distance)
                  THEN k ELSE prev,
                  k + 1)

tcNearest(telemetry, distance) == tcReduce(telemetry, distance, 1, 2)

\* MultiTelemetryChart.handleMouseMove, the per-lap lookup.
RECURSIVE mtReduce(_, _, _, _)
mtReduce(telemetry, distance, prev, k) ==
    IF k > Len(telemetry) THEN prev
    ELSE mtReduce(telemetry, distance,
                  IF Abs(telemetry[k].distance - distance)
                         < Abs(telemetry[prev].distance - distance)
                  THEN k ELSE prev,
                  k + 1)

mtNearest(telemetry, distance) == mtReduce(telemetry, distance, 1, 2)

\* TrackMapChart.drawDistanceMarker, "Find point at this distance".
RECURSIVE tmReduce(_, _, _, _)
tmReduce(telemetry, distance, prev, k) ==
    IF k > Len(telemetry) THEN prev
    ELSE IF Abs(telemetry[k].distance - distance)
                < Abs(telemetry[prev].distance - distance)
    THEN tmReduce(telemetry, distance, k, k + 1)
    ELSE tmReduce(telemetry, distance, prev, k + 1)

tmNearest(telemetry, distance) == tmReduce(telemetry, distance, 1, 2)

\* ------------------------------------------------------------------------
\* Delta estimator: MultiTelemetryChart.calculateDelta(point, lap, data)
\* reads this.referenceLap, passed here as a parameter.  The result is
\* [threw |-> FALSE, value |-> milliseconds] or, when reduce is called on
\* an empty array without an initial value, a TypeError.
\* ------------------------------------------------------------------------

Returned(v) == [threw |-> FALSE, value |-> v]
TypeError == [threw |-> TRUE, value |-> 0]

\* "Find corresponding point in reference lap by distance"
RECURSIVE refReduce(_, _, _, _)
refReduce(telemetry, distance, prev, k) ==
    IF k > Len(telemetry) THEN prev
    ELSE refReduce(telemetry, distance,
                   IF Abs(telemetry[k].distance - distance)
                          < Abs(telemetry[prev].distance - distance)
                   THEN k ELSE prev,
                   k + 1)

\* The two-sample part of calculateDelta: time delta when both time_ms are
\* truthy, else the estimate from the speed difference.
deltaOfPoints(point, refPoint) ==
    IF Truthy(point.time_ms) /\ Truthy(refPoint.time_ms)
    THEN point.time_ms - refPoint.time_ms
    ELSE Times(Minus(ToNumber(refPoint.speed), ToNumber(point.speed)), 10)

\* calculateDelta without the line "if (lap === this.referenceLap) return 0".
calculateDeltaNoIdentity(point, lap, referenceLap) ==
    IF referenceLap = none \/ ~HasTelemetry(referenceLap) THEN Returned(0)
    ELSE IF Len(referenceLap.telemetry) = 0 THEN TypeError
    ELSE LET refPoint == referenceLap.telemetry[
                 refReduce(referenceLap.telemetry, point.distance, 1, 2)]
         IN  Returned(deltaOfPoints(point, refPoint))

\* calculateDelta without its first line: reading .telemetry of a null
\* reference, or calling reduce on an undefined telemetry, throws.
calculateDeltaUnguarded(point, lap, referenceLap) ==
    IF referenceLap = none \/ ~HasTelemetry(referenceLap) THEN TypeError
    ELSE IF lap = referenceLap THEN Returned(0)
    ELSE IF Len(referenceLap.telemetry) = 0 THEN TypeError
    ELSE LET refPoint == referenceLap.telemetry[
                 refReduce(referenceLap.telemetry, point.distance, 1, 2)]
         IN  Returned(deltaOfPoints(point, refPoint))

calculateDelta(point, lap, referenceLap) ==
    IF referenceLap = none \/ ~HasTelemetry(referenceLap) THEN Returned(0)
    ELSE IF lap = referenceLap THEN Returned(0)
    ELSE IF Len(referenceLap.telemetry) = 0 THEN TypeError
    ELSE LET refPoint == referenceLap.telemetry[
                 refReduce(referenceLap.telemetry, point.distance, 1, 2)]
         IN  Returned(deltaOfPoints(point, refPoint))

\* ------------------------------------------------------------------------
\* Corner detector: TrackMapChart.detectAndDrawTurns(telemetry)
\* ------------------------------------------------------------------------

windowSize == 20
\* speedThreshold = 0.85, as a percentage; currentSpeed < avg * 0.85 is
\* compared exactly as currentSpeed * count * 100 < sum * 85.
speedThresholdPct == 85
\* the literal 5 of the "immediate vicinity" loop
vicinity == 5
\* the literal 200 of the duplicate check
minTurnGap == 200
\* the literal 10 of "if (points.length < 10) return"
minPoints == 10

\* telemetry.filter(p => p.x != null && p.y != null && p.speed != null)
turnPoints(telemetry) ==
    SelectSeq(telemetry,
              LAMBDA p : ~Nullish(p.x) /\ ~Nullish(p.y) /\ ~Nullish(p.speed))

\* surroundingSpeeds.reduce((a, b) => a + b, 0): the sum of the speeds at
\* j in lo..hi, j # i (the range is summed in halves, which keeps the
\* evaluation depth logarithmic; integer addition is associative).
RECURSIVE sumSurrounding(_, _, _, _)
sumSurrounding(points, lo, hi, i) ==
    IF lo > hi THEN 0
    ELSE IF lo = hi THEN (IF lo # i THEN points[lo].speed ELSE 0)
    ELSE LET mid == (lo + hi) \div 2
         IN  sumSurrounding(points, lo, mid, i)
                 + sumSurrounding(points, mid + 1, hi, i)

\* currentSpeed < avgSurrounding * speedThreshold
slowerThanSurrounding(points, i) ==
    LET sum == sumSurrounding(points, i - windowSize, i + windowSize, i)
        count == 2 * windowSize
    IN  points[i].speed * count * 100 < sum * speedThresholdPct

\* The isMinimum loop started at j = i instead of j = i - 5: only the samples
\* after i are compared.
isMinimumAhead(points, i) ==
    \A j \in i..(i + vicinity) :
        ~(j # i /\ j >= 1 /\ j <= Len(points)
          /\ points[j].speed < points[i].speed)

\* the isMinimum loop
isMinimum(points, i) ==
    \A j \in (i - vicinity)..(i + vicinity) :
        ~(j # i /\ j >= 1 /\ j <= Len(points)
          /\ points[j].speed < points[i].speed)

\* The duplicate check with >= 200 in place of > 200.
farFromLastOrEqual(points, i, turns) ==
    \/ Len(turns) = 0
    \/ Abs(points[i].distance - turns[Len(turns)].distance) >= minTurnGap

\* The duplicate check with the comparison inverted (< 200).
farFromLastInverted(points, i, turns) ==
    \/ Len(turns) = 0
    \/ Abs(points[i].distance - turns[Len(turns)].distance) < minTurnGap

\* !lastTurn || Math.abs(points[i].distance - lastTurn.distance) > 200
farFromLast(points, i, turns) ==
    \/ Len(turns) = 0
    \/ Abs(points[i].distance - turns[Len(turns)].distance) > minTurnGap

\* The for loop with "i < points.length - windowSize - 1": the scan stops
\* one sample earlier.
nextTurnShort(points, i, turns) ==
    LET pushing == {j \in i..(Len(points) - windowSize - 1) :
                       /\ slowerThanSurrounding(points, j)
                       /\ isMinimum(points, j)
                       /\ farFromLast(points, j, turns)}
    IN  IF pushing = {} THEN 0
        ELSE CHOOSE j \in pushing : \A m \in pushing : j <= m

\* The for loop "for (i = windowSize; i < points.length - windowSize; i++)".
\* The array turns changes only in an iteration that pushes, so the loop is
\* evaluated from one push to the next: nextTurn is the first index from
\* i on at which the three nested conditions hold for the turns pushed so
\* far (0 when there is none), and the scan resumes behind it.
nextTurn(points, i, turns) ==
    LET pushing == {j \in i..(Len(points) - windowSize) :
                       /\ slowerThanSurrounding(points, j)
                       /\ isMinimum(points, j)
                       /\ farFromLast(points, j, turns)}
    IN  IF pushing = {} THEN 0
        ELSE CHOOSE j \in pushing : \A m \in pushing : j <= m

RECURSIVE turnScan(_, _, _)
turnScan(points, i, turns) ==
    LET j == nextTurn(points, i, turns)
    IN  IF j = 0 THEN turns
        ELSE turnScan(points, j + 1,
                 Append(turns, [x |-> points[j].x, y |-> points[j].y,
                                distance |-> points[j].distance,
                                speed |-> points[j].speed,
                                index |-> Len(turns) + 1]))

\* The local array turns at the end of detectAndDrawTurns, i.e. the
\* markers it draws; no marker is drawn when the method returns early.
detectTurns(telemetry) ==
    LET points == turnPoints(telemetry)
    IN  IF Len(points) < minPoints THEN <<>>
        ELSE turnScan(points, windowSize + 1, <<>>)

\* ------------------------------------------------------------------------
\* State
\* ------------------------------------------------------------------------

VARIABLES
    rect,            \* getBoundingClientRect() of the chart containers
    telemetryChart,  \* app.charts.telemetry, the TelemetryChart object
    multiTelemetry,  \* app.charts.multiTelemetry, the MultiTelemetryChart
    trackMap,        \* app.charts.trackMap, the TrackMapChart object
    lastCall,        \* the handler that ran last, with its lap argument
    arg,             \* input of a function under test
    ret,             \* its result: [done |-> FALSE] until it is applied
    app,             \* F1DashApp: telemetry requests in flight, overlay
    lapTable         \* app.lapTable, the LapTimesTable object

chartVars == <<rect, telemetryChart, multiTelemetry, trackMap, lastCall>>
fnVars == <<arg, ret>>
vars == <<rect, telemetryChart, multiTelemetry, trackMap, lastCall, arg, ret,
          app, lapTable>>

Pending == [done |-> FALSE]

\* ------------------------------------------------------------------------
\* BaseChart
\* ------------------------------------------------------------------------

\* The margin options passed to super() by each chart's constructor.
tcMargin == [top |-> 30, right |-> 80, bottom |-> 50, left |-> 70]
mtMargin == [top |-> 20, right |-> 80, bottom |-> 30, left |-> 60]
tmMargin == [top |-> 20, right |-> 20, bottom |-> 20, left |-> 20]

\* BaseChart.init: this.width and this.height from the container's rect
\* (rect.width || 800, rect.height || 400) and the margins.
initSize(r, margin) ==
    [width  |-> (IF r.width = 0 THEN 800 ELSE r.width)
                    - margin.left - margin.right,
     height |-> (IF r.height = 0 THEN 400 ELSE r.height)
                    - margin.top - margin.bottom]

\* !data || !data.laps || data.laps.length === 0
dataEmpty(data) == data = none \/ Len(data.laps) = 0

\* The distances of all samples of the laps, in array order.
allDistances(data) ==
    LET allPoints == FlatTelemetry(data.laps, 1)
    IN  [k \in 1..Len(allPoints) |-> allPoints[k].distance]

\* setupScales of TelemetryChart and MultiTelemetryChart, the x scale:
\* domain [0, d3.max(allPoints, d => d.distance) || 5000], range [0, width];
\* the scale is left as it is when there are no laps.
setupXScale(data, xScale, width) ==
    IF dataEmpty(data) THEN xScale
    ELSE [domain |-> d3maxOr(allDistances(data), 5000), range |-> width]

\* The pointer positions over an overlay of the given width are those whose
\* image under xScale.invert is a distance d with
\* 0 <= d * range / domain <= width.
underPointer(xScale, width, d) ==
    d >= 0 /\ d * xScale.range <= width * xScale.domain

\* ------------------------------------------------------------------------
\* TelemetryChart (speed chart)
\* ------------------------------------------------------------------------

\* TelemetryChart.handleMouseMove: for each lap the sample nearest to the
\* pointer's distance; 0 for a lap that is skipped (no samples).
tcHandleMouseMove(data, distance) ==
    [i \in 1..Len(data.laps) |->
        IF NoSamples(data.laps[i]) THEN 0
        ELSE tcNearest(data.laps[i].telemetry, distance)]

\* TelemetryChart.render: the overlay with the mousemove handler exists
\* when there are laps.
tcRender(data) == ~dataEmpty(data)

\* BaseChart.init on the TelemetryChart: the container is emptied, the
\* overlay with it, and the size is taken from the container's rect;
\* _lastData and the scale stay.
tcInit(chart, r) ==
    LET size == initSize(r, tcMargin)
    IN  [chart EXCEPT !.width = size.width, !.height = size.height,
                      !.overlay = FALSE]

\* BaseChart.update on the TelemetryChart.
tcUpdate(chart, data, r) ==
    LET size == initSize(r, tcMargin)
    IN  [lastData |-> data,
         width |-> size.width, height |-> size.height,
         xScale |-> setupXScale(data, chart.xScale, size.width),
         overlay |-> tcRender(data)]

\* BaseChart.resize on the TelemetryChart.
tcResize(chart, r) ==
    LET size == initSize(r, tcMargin)
    IN  IF chart.lastData = none
        THEN tcInit(chart, r)
        ELSE [chart EXCEPT !.width = size.width, !.height = size.height,
                           !.overlay = tcRender(chart.lastData)]

\* ------------------------------------------------------------------------
\* MultiTelemetryChart
\* ------------------------------------------------------------------------

\* The end of setupScales: "Set reference lap for delta calculation (first
\* lap)"; setupScales returns before it when there are no laps.
setupScalesReference(data, referenceLap) ==
    IF dataEmpty(data) THEN referenceLap
    ELSE IF Len(data.laps) > 0 THEN data.laps[1] ELSE referenceLap

\* The delta channel of render: for every lap with samples the line
\* generator evaluates calculateDelta at each of the lap's samples.
deltaChannel(data, referenceLap) ==
    [i \in 1..Len(data.laps) |->
        IF NoSamples(data.laps[i]) THEN <<>>
        ELSE [k \in 1..Len(data.laps[i].telemetry) |->
                 calculateDelta(data.laps[i].telemetry[k], data.laps[i],
                                referenceLap)]]

\* MultiTelemetryChart.render.  delta is the list of delta values (ms) drawn
\* per lap; when calculateDelta throws, render stops in the delta channel
\* of the throwing lap: the laps before it are drawn, the remaining
\* channels, the crosshair overlay and the legend are not.
mtRender(data, referenceLap) ==
    IF dataEmpty(data)
    THEN [delta |-> <<>>, overlay |-> FALSE, threw |-> FALSE]
    ELSE LET results == deltaChannel(data, referenceLap)
             throwing == {i \in 1..Len(results) :
                             \E k \in 1..Len(results[i]) : results[i][k].threw}
             values(i) == [k \in 1..Len(results[i]) |-> results[i][k].value]
         IN  IF throwing = {}
             THEN [delta |-> [i \in 1..Len(results) |-> values(i)],
                   overlay |-> TRUE, threw |-> FALSE]
             ELSE LET first == CHOOSE i \in throwing :
                                   \A j \in throwing : i <= j
                  IN  [delta |-> [i \in 1..(first - 1) |-> values(i)],
                       overlay |-> FALSE, threw |-> TRUE]

\* BaseChart.init on the MultiTelemetryChart: everything drawn is removed;
\* _lastData, referenceLap and the scale stay.
mtInit(chart, r) ==
    LET size == initSize(r, mtMargin)
    IN  [chart EXCEPT !.width = size.width, !.height = size.height,
                      !.delta = <<>>, !.overlay = FALSE, !.threw = FALSE]

\* BaseChart.update on the MultiTelemetryChart: _lastData, init(),
\* setupScales(data), render(data).  referenceLap is this.referenceLap when
\* update is entered.
mtUpdate(chart, data, referenceLap, r) ==
    LET size == initSize(r, mtMargin)
        ref == setupScalesReference(data, referenceLap)
        drawn == mtRender(data, ref)
    IN  [lastData |-> data,
         referenceLap |-> ref,
         width |-> size.width, height |-> size.height,
         xScale |-> setupXScale(data, chart.xScale, size.width),
         delta |-> drawn.delta,
         overlay |-> drawn.overlay,
         threw |-> drawn.threw]

\* BaseChart.resize on the MultiTelemetryChart: init(), then render of
\* _lastData when there is one; setupScales is not called.
mtResize(chart, r) ==
    LET size == initSize(r, mtMargin)
        drawn == mtRender(chart.lastData, chart.referenceLap)
    IN  IF chart.lastData = none
        THEN mtInit(chart, r)
        ELSE [chart EXCEPT !.width = size.width, !.height = size.height,
                           !.delta = drawn.delta,
                           !.overlay = drawn.overlay,
                           !.threw = drawn.threw]

\* setReferenceLap: "if (this._lastData) this.update(this._lastData)".
setReferenceLapUpdates(lastData) == lastData # none

\* MultiTelemetryChart.setReferenceLap(lap)
mtSetReferenceLap(chart, lap, r) ==
    IF setReferenceLapUpdates(chart.lastData)
    THEN mtUpdate(chart, chart.lastData, lap, r)
    ELSE [chart EXCEPT !.referenceLap = lap, !.threw = FALSE]

\* MultiTelemetryChart.handleMouseMove: for each lap the sample nearest to
\* the pointer's distance; 0 for a lap that is skipped (no samples).
mtHandleMouseMove(data, distance) ==
    [i \in 1..Len(data.laps) |->
        IF NoSamples(data.laps[i]) THEN 0
        ELSE mtNearest(data.laps[i].telemetry, distance)]

\* ------------------------------------------------------------------------
\* TrackMapChart
\* ------------------------------------------------------------------------

\* (l.telemetry || []).some(p => p.x != null && p.y != null)
hasPosition(lap) ==
    \E k \in 1..Len(TelemetryOf(lap)) :
        ~Nullish(TelemetryOf(lap)[k].x) /\ ~Nullish(TelemetryOf(lap)[k].y)

\* TrackMapChart.drawDistanceMarker: for each lap the sample nearest to
\* data.selectedDistance; 0 for a lap that is skipped (no samples, or the
\* nearest sample has no position).
drawDistanceMarker(data) ==
    [i \in 1..Len(data.laps) |->
        IF NoSamples(data.laps[i]) THEN 0
        ELSE LET k == tmNearest(data.laps[i].telemetry,
                                data.selectedDistance)
                 point == data.laps[i].telemetry[k]
             IN  IF Nullish(point.x) \/ Nullish(point.y) THEN 0 ELSE k]

\* TrackMapChart.render: the turn markers drawn and stored by
\* detectAndDrawTurns on the first lap with position data, and the
\* position markers of drawDistanceMarker.  detectAndDrawTurns assigns
\* this.turnMarkers only when it does not return early.
tmRender(chart, data) ==
    IF dataEmpty(data) \/ ~(\E i \in 1..Len(data.laps) :
                                hasPosition(data.laps[i]))
    THEN [turnMarkers |-> chart.turnMarkers, turnsDrawn |-> <<>>,
          positionMarkers |-> <<>>]
    ELSE LET first == CHOOSE i \in 1..Len(data.laps) :
                          /\ hasPosition(data.laps[i])
                          /\ \A j \in 1..(i - 1) : ~hasPosition(data.laps[j])
             firstLap == data.laps[first]
             turns == detectTurns(firstLap.telemetry)
         IN  [turnMarkers |->
                  IF Len(turnPoints(firstLap.telemetry)) < minPoints
                  THEN chart.turnMarkers ELSE turns,
              turnsDrawn |-> turns,
              positionMarkers |->
                  IF ~Nullish(data.selectedDistance)
                  THEN drawDistanceMarker(data) ELSE <<>>]

\* BaseChart.init on the TrackMapChart: the markers drawn are removed;
\* _lastData and this.turnMarkers stay.
tmInit(chart, r) ==
    LET size == initSize(r, tmMargin)
    IN  [chart EXCEPT !.width = size.width, !.height = size.height,
                      !.turnsDrawn = <<>>, !.positionMarkers = <<>>]

\* BaseChart.update on the TrackMapChart.
tmUpdate(chart, data, r) ==
    LET size == initSize(r, tmMargin)
        drawn == tmRender(chart, data)
    IN  [lastData |-> data,
         width |-> size.width, height |-> size.height,
         turnMarkers |-> drawn.turnMarkers,
         turnsDrawn |-> drawn.turnsDrawn,
         positionMarkers |-> drawn.positionMarkers]

\* BaseChart.resize on the TrackMapChart.
tmResize(chart, r) ==
    LET size == initSize(r, tmMargin)
        drawn == tmRender(chart, chart.lastData)
    IN  IF chart.lastData = none
        THEN tmInit(chart, r)
        ELSE [chart EXCEPT !.width = size.width, !.height = size.height,
                           !.turnMarkers = drawn.turnMarkers,
                           !.turnsDrawn = drawn.turnsDrawn,
                           !.positionMarkers = drawn.positionMarkers]

\* BaseChart.clear on the MultiTelemetryChart: the channel groups (class
\* data-element) are removed, the delta lines with them; the overlay is no
\* data-element and stays.
mtClear(chart) == [chart EXCEPT !.delta = <<>>, !.threw = FALSE]

\* BaseChart.clear on the TrackMapChart: the turn markers and position
\* markers drawn (class data-element) are removed; this.turnMarkers stays.
\* BaseChart.destroy removes the svg, and these markers with it.
tmClear(chart) == [chart EXCEPT !.turnsDrawn = <<>>, !.positionMarkers = <<>>]

\* BaseChart.destroy on the TelemetryChart: the svg is removed, the overlay
\* with it; _lastData, the size and the scale stay.
tcDestroy(chart) == [chart EXCEPT !.overlay = FALSE]

\* BaseChart.destroy on the MultiTelemetryChart
mtDestroy(chart) ==
    [chart EXCEPT !.delta = <<>>, !.overlay = FALSE, !.threw = FALSE]

\* ------------------------------------------------------------------------
\* The application: F1DashApp handlers on the three telemetry charts
\* ------------------------------------------------------------------------

\* The three telemetry charts (this.charts.telemetry, .multiTelemetry,
\* .trackMap).
ChartNames == {"telemetry", "multiTelemetry", "trackMap"}

\* The most laps in one comparison response.
MaxLaps == 2
\* The largest distance under the pointer.
MaxTarget == 1

\* The lap objects of the responses: a lap without samples, two laps with
\* timed, positioned samples in distance order (the first sample of the
\* first has time offset 0), a lap whose samples arrive out of distance
\* order, without time offsets and partly without position.
LapPool ==
    {Lap(1, <<>>),
     Lap(2, <<Pt(0, 0, 100, 0, 0), Pt(2, 400, 200, 4, 0)>>),
     Lap(3, <<Pt(0, 300, 120, 0, 0), Pt(1, 800, 180, 2, 2),
              Pt(2, 1500, 150, 4, 2)>>),
     Lap(4, <<Pt(2, null, 90, null, null), Pt(0, null, 210, 0, 0)>>)}

\* telemetryData = { laps: [...] } as built from a response, of distinct
\* laps in the order of the response, whatever it is; the property
\* selectedDistance is undefined until setSelectedDistance assigns it.
TelemetryDatas ==
    {[laps |-> l, selectedDistance |-> undefined] :
        l \in {q \in UNION {[1..n -> LapPool] : n \in 0..MaxLaps} :
                  \A i, j \in 1..Len(q) : i # j => q[i].oid # q[j].oid}}

\* The rect of the laid-out chart containers.
Rects == {[width |-> 1000, height |-> 600]}

\* A call of a handler: its name, its lap argument (setReferenceLap) and
\* the samples it looked up (the mousemove handlers).
Called(op, lap, found) == [op |-> op, lap |-> lap, found |-> found]

\* F1DashApp once a session is loaded: the loading overlay is hidden
\* (showLoading(false) of loadSessionData) and no handler is suspended at
\* an await.
\*   inflight      the telemetry requests whose handler awaits the
\*                 response, in the order they were sent
\*   latest        the telemetryData of the request sent last, none before
\*                 the first request and once that request has failed
\*   sessions      the stage of each loadSessionData call that has not
\*                 reached its finally block
\*   predictions   the number of loadPrediction calls that have not
\*                 reached their finally block
\*   sharedData    the charts among telemetry and multiTelemetry whose
\*                 _lastData is the very object that trackMap._lastData is
appInit ==
    [inflight |-> <<>>, latest |-> none,
     sessions |-> <<>>, predictions |-> 0, sharedData |-> {},
     loadingHidden |-> TRUE]

\* The LapTimesTable as constructed: no laps, nothing selected, sorted by
\* lap number; this.compareBtn is undefined until the first render that
\* creates the controls, and no button is in the container.
lapTableInit ==
    [laps |-> {}, selectedLaps |-> {}, sortColumn |-> "lap_number",
     sortDirection |-> "asc", compareBtn |-> none, buttonShown |-> FALSE]

\* The charts as constructed by initCharts.
ChartInit ==
    /\ rect \in Rects
    /\ telemetryChart = [lastData |-> none, width |-> 0, height |-> 0,
                         xScale |-> none, overlay |-> FALSE]
    /\ multiTelemetry = [lastData |-> none, referenceLap |-> none,
                         width |-> 0, height |-> 0, xScale |-> none,
                         delta |-> <<>>, overlay |-> FALSE, threw |-> FALSE]
    /\ trackMap = [lastData |-> none, width |-> 0, height |-> 0,
                   turnMarkers |-> <<>>, turnsDrawn |-> <<>>,
                   positionMarkers |-> <<>>]
    /\ lastCall = Called("initCharts", none, none)
    /\ app = appInit
    /\ lapTable = lapTableInit

Init == ChartInit /\ arg = none /\ ret = Pending

\* The most telemetry requests in flight at a time.
MaxRequests == 2

\* The most telemetry requests in flight at a time where the overlap of
\* loads is not the subject.
MaxPending == 1

\* A request: the handler that sent it, the telemetryData its response
\* gives, and whether it is the request sent last.
Request(kind, data) == [kind |-> kind, data |-> data, last |-> TRUE]

\* The sequence s without its element i.
RemoveAt(s, i) == SubSeq(s, 1, i - 1) \o SubSeq(s, i + 1, Len(s))

\* The handler up to "await": showLoading(true), then the request is sent.
sendRequest(a, req) ==
    [a EXCEPT !.inflight =
                  Append([k \in 1..Len(a.inflight) |->
                             [a.inflight[k] EXCEPT !.last = FALSE]], req),
              !.latest = req.data,
              !.loadingHidden = FALSE]

\* The handler from the response on: after the try block, "finally" hides
\* the loading overlay; the new telemetryData object is the track map's
\* too when trackMap.update was reached.
receiveResponse(a, i, shared) ==
    [a EXCEPT !.inflight = RemoveAt(@, i),
              !.sharedData = IF shared THEN {"telemetry", "multiTelemetry"}
                             ELSE {},
              !.loadingHidden = TRUE]

\* The handler when the request fails: the catch block alerts, "finally"
\* hides the loading overlay.
requestFailed(a, i) ==
    [a EXCEPT !.inflight = RemoveAt(@, i),
              !.latest = IF a.inflight[i].last THEN none ELSE @,
              !.loadingHidden = TRUE]

\* loadTelemetryComparison(laps) up to the await of api.compareTelemetry
RequestComparison(data) ==
    /\ Len(app.inflight) < MaxRequests
    /\ app' = sendRequest(app, Request("comparison", data))
    /\ lastCall' = Called("loadTelemetryComparison:await", none, none)
    /\ UNCHANGED <<lapTable, rect, telemetryChart, multiTelemetry, trackMap,
                   arg, ret>>

\* loadSingleLapTelemetry(lap) up to the await of api.getLapTelemetry
RequestSingleLap(data) ==
    /\ Len(app.inflight) < MaxRequests
    /\ Len(data.laps) = 1
    /\ app' = sendRequest(app, Request("singleLap", data))
    /\ lastCall' = Called("loadSingleLapTelemetry:await", none, none)
    /\ UNCHANGED <<lapTable, rect, telemetryChart, multiTelemetry, trackMap,
                   arg, ret>>

\* The charts after the three updates of a load; an exception thrown by
\* the update of the multi-channel chart skips the track map.
chartsLoaded(data) ==
    LET mt == mtUpdate(multiTelemetry, data, multiTelemetry.referenceLap,
                       rect)
    IN  [telemetry |-> tcUpdate(telemetryChart, data, rect),
         multiTelemetry |-> mt,
         trackMap |-> IF mt.threw THEN trackMap
                      ELSE tmUpdate(trackMap, data, rect)]

\* A load from the response of request i on: the three charts are updated
\* in turn with the one telemetryData object inside the try block; an
\* exception thrown by an update is caught, and the updates behind it are
\* skipped; "finally" hides the loading overlay.
loadFromResponse(i, op) ==
    LET charts == chartsLoaded(app.inflight[i].data)
    IN  /\ telemetryChart' = charts.telemetry
        /\ multiTelemetry' = charts.multiTelemetry
        /\ trackMap' = charts.trackMap
        /\ app' = receiveResponse(app, i, ~charts.multiTelemetry.threw)
        /\ lastCall' = Called(op, none, none)

\* loadTelemetryComparison from the response of api.compareTelemetry on
LoadTelemetryComparison(i) ==
    /\ i \in 1..Len(app.inflight)
    /\ app.inflight[i].kind = "comparison"
    /\ loadFromResponse(i, "loadTelemetryComparison")
    /\ UNCHANGED <<lapTable, rect, arg, ret>>

\* loadSingleLapTelemetry from the response of api.getLapTelemetry on
LoadSingleLapTelemetry(i) ==
    /\ i \in 1..Len(app.inflight)
    /\ app.inflight[i].kind = "singleLap"
    /\ loadFromResponse(i, "loadSingleLapTelemetry")
    /\ UNCHANGED <<lapTable, rect, arg, ret>>

\* The request i fails (the await throws): the charts stay as they are.
TelemetryRequestFails(i) ==
    /\ i \in 1..Len(app.inflight)
    /\ app' = requestFailed(app, i)
    /\ lastCall' = Called(IF app.inflight[i].kind = "comparison"
                          THEN "loadTelemetryComparison:catch"
                          ELSE "loadSingleLapTelemetry:catch", none, none)
    /\ UNCHANGED <<lapTable, rect, telemetryChart, multiTelemetry, trackMap,
                   arg, ret>>

\* multiTelemetry.setReferenceLap(lap)
SetReferenceLap(lap) ==
    /\ multiTelemetry' = mtSetReferenceLap(multiTelemetry, lap, rect)
    /\ lastCall' = Called("setReferenceLap", lap, none)
    /\ UNCHANGED <<app, lapTable, rect, telemetryChart, trackMap, arg, ret>>

\* multiTelemetry.update(multiTelemetry._lastData): a redraw of the laps
\* that are loaded.
Redraw ==
    /\ multiTelemetry.lastData # none
    /\ multiTelemetry' = mtUpdate(multiTelemetry, multiTelemetry.lastData,
                                  multiTelemetry.referenceLap, rect)
    /\ lastCall' = Called("update", none, none)
    /\ UNCHANGED <<app, lapTable, rect, telemetryChart, trackMap, arg, ret>>

\* The window is resized (the containers get the rect r) and handleResize
\* resizes every chart that has _lastData.
HandleResize(r) ==
    /\ rect' = r
    /\ telemetryChart' = IF telemetryChart.lastData # none
                         THEN tcResize(telemetryChart, r)
                         ELSE telemetryChart
    /\ trackMap' = IF trackMap.lastData # none
                   THEN tmResize(trackMap, r) ELSE trackMap
    /\ multiTelemetry' = IF multiTelemetry.lastData # none
                         THEN mtResize(multiTelemetry, r)
                         ELSE multiTelemetry
    /\ lastCall' = Called("handleResize", none, none)
    /\ UNCHANGED <<app, lapTable, arg, ret>>

\* mousemove on the overlay of the multi-channel chart, the pointer at
\* distance d: the labels show the sample found for each lap.
MultiMouseMove(d) ==
    /\ multiTelemetry.overlay
    /\ underPointer(multiTelemetry.xScale, multiTelemetry.width, d)
    /\ multiTelemetry' = [multiTelemetry EXCEPT !.threw = FALSE]
    /\ lastCall' = Called("multiTelemetry.handleMouseMove", none,
                          [distance |-> d,
                           points |-> mtHandleMouseMove(
                                          multiTelemetry.lastData, d)])
    /\ UNCHANGED <<app, lapTable, rect, telemetryChart, trackMap, arg, ret>>

\* mousemove on the overlay of the speed chart, the pointer at distance d
SpeedMouseMove(d) ==
    /\ telemetryChart.overlay
    /\ underPointer(telemetryChart.xScale, telemetryChart.width, d)
    /\ lastCall' = Called("telemetry.handleMouseMove", none,
                          [distance |-> d,
                           points |-> tcHandleMouseMove(
                                          telemetryChart.lastData, d)])
    /\ UNCHANGED <<app, lapTable, rect, telemetryChart, multiTelemetry, trackMap, arg, ret>>

\* trackMap.setSelectedDistance(d): the assignment is made on the object
\* the track map holds, which the other two charts hold too when the last
\* load passed it to all three updates; only the track map is redrawn.
SetSelectedDistance(d) ==
    /\ trackMap' =
           IF trackMap.lastData # none
           THEN tmUpdate(trackMap,
                         [trackMap.lastData EXCEPT !.selectedDistance = d],
                         rect)
           ELSE trackMap
    /\ telemetryChart' =
           IF trackMap.lastData # none /\ "telemetry" \in app.sharedData
           THEN [telemetryChart EXCEPT !.lastData.selectedDistance = d]
           ELSE telemetryChart
    /\ multiTelemetry' =
           IF trackMap.lastData # none /\ "multiTelemetry" \in app.sharedData
           THEN [multiTelemetry EXCEPT !.lastData.selectedDistance = d]
           ELSE multiTelemetry
    /\ lastCall' = Called("setSelectedDistance", none, none)
    /\ UNCHANGED <<app, lapTable, rect, arg, ret>>

\* charts[c].clear(): the speed lines it removes from the speed chart are
\* not part of the chart's modelled state.
Clear(c) ==
    /\ multiTelemetry' = IF c = "multiTelemetry" THEN mtClear(multiTelemetry)
                         ELSE multiTelemetry
    /\ trackMap' = IF c = "trackMap" THEN tmClear(trackMap) ELSE trackMap
    /\ lastCall' = Called([telemetry |-> "telemetry.clear",
                           multiTelemetry |-> "multiTelemetry.clear",
                           trackMap |-> "trackMap.clear"][c], none, none)
    /\ UNCHANGED <<app, lapTable, rect, telemetryChart, arg, ret>>

\* charts[c].destroy()
Destroy(c) ==
    /\ telemetryChart' = IF c = "telemetry" THEN tcDestroy(telemetryChart)
                         ELSE telemetryChart
    /\ multiTelemetry' = IF c = "multiTelemetry"
                         THEN mtDestroy(multiTelemetry) ELSE multiTelemetry
    /\ trackMap' = IF c = "trackMap" THEN tmClear(trackMap) ELSE trackMap
    /\ lastCall' = Called([telemetry |-> "telemetry.destroy",
                           multiTelemetry |-> "multiTelemetry.destroy",
                           trackMap |-> "trackMap.destroy"][c], none, none)
    /\ UNCHANGED <<app, lapTable, rect, arg, ret>>

\* charts[c].init()
CallInit(c) ==
    /\ telemetryChart' = IF c = "telemetry"
                         THEN tcInit(telemetryChart, rect) ELSE telemetryChart
    /\ multiTelemetry' = IF c = "multiTelemetry"
                         THEN mtInit(multiTelemetry, rect) ELSE multiTelemetry
    /\ trackMap' = IF c = "trackMap" THEN tmInit(trackMap, rect) ELSE trackMap
    /\ lastCall' = Called([telemetry |-> "telemetry.init",
                           multiTelemetry |-> "multiTelemetry.init",
                           trackMap |-> "trackMap.init"][c], none, none)
    /\ UNCHANGED <<app, lapTable, rect, arg, ret>>

\* charts[c].resize(): init(), then render(_lastData) when there is one
CallResize(c) ==
    /\ telemetryChart' = IF c = "telemetry"
                         THEN tcResize(telemetryChart, rect)
                         ELSE telemetryChart
    /\ multiTelemetry' = IF c = "multiTelemetry"
                         THEN mtResize(multiTelemetry, rect)
                         ELSE multiTelemetry
    /\ trackMap' = IF c = "trackMap" THEN tmResize(trackMap, rect)
                   ELSE trackMap
    /\ lastCall' = Called([telemetry |-> "telemetry.resize",
                           multiTelemetry |-> "multiTelemetry.resize",
                           trackMap |-> "trackMap.resize"][c], none, none)
    /\ UNCHANGED <<app, lapTable, rect, arg, ret>>

\* charts[c].update(data) with a telemetryData object of its own: the
\* chart no longer holds the object the track map holds.
CallUpdate(c, data) ==
    /\ telemetryChart' = IF c = "telemetry"
                         THEN tcUpdate(telemetryChart, data, rect)
                         ELSE telemetryChart
    /\ multiTelemetry' = IF c = "multiTelemetry"
                         THEN mtUpdate(multiTelemetry, data,
                                       multiTelemetry.referenceLap, rect)
                         ELSE multiTelemetry
    /\ trackMap' = IF c = "trackMap" THEN tmUpdate(trackMap, data, rect)
                   ELSE trackMap
    /\ app' = [app EXCEPT !.sharedData =
                              IF c = "trackMap" THEN {} ELSE @ \ {c}]
    /\ lastCall' = Called([telemetry |-> "telemetry.update",
                           multiTelemetry |-> "multiTelemetry.update",
                           trackMap |-> "trackMap.update"][c], none, none)
    /\ UNCHANGED <<lapTable, rect, arg, ret>>

\* The handlers of the application.
Next ==
    \/ \E data \in TelemetryDatas :
          Len(app.inflight) < MaxPending /\ RequestComparison(data)
    \/ \E data \in TelemetryDatas :
          Len(app.inflight) < MaxPending /\ RequestSingleLap(data)
    \/ \E i \in 1..MaxPending : LoadTelemetryComparison(i)
    \/ \E i \in 1..MaxPending : LoadSingleLapTelemetry(i)
    \/ \E i \in 1..MaxPending : TelemetryRequestFails(i)
    \/ \E lap \in LapPool \cup {none} : SetReferenceLap(lap)
    \/ Redraw
    \/ \E r \in Rects : HandleResize(r)
    \/ \E d \in 0..MaxTarget : MultiMouseMove(d)
    \/ \E d \in 0..MaxTarget : SpeedMouseMove(d)
    \/ \E d \in 0..MaxTarget : SetSelectedDistance(d)

Spec == Init /\ [][Next]_vars

\* The handlers of the application together with the public methods of
\* the three charts called on one chart alone, which the application does
\* not do.
NextCharts ==
    \/ Next
    \/ \E c \in ChartNames : CallInit(c)
    \/ \E c \in ChartNames : CallResize(c)
    \/ \E c \in ChartNames, data \in TelemetryDatas : CallUpdate(c, data)
    \/ \E c \in ChartNames : Clear(c)
    \/ \E c \in ChartNames : Destroy(c)

SpecCharts == Init /\ [][NextCharts]_vars

\* ------------------------------------------------------------------------
\* Nearest-sample locator on bounded inputs
\* ------------------------------------------------------------------------

MaxSamples == 3
MaxDistance == 4

LocSample(d) == Pt(d, null, 0, null, null)

\* The example of the specification: distances [0,10,20,30].
ExampleTelemetry == <<LocSample(0), LocSample(10), LocSample(20), LocSample(30)>>

LocatorInputs ==
    {[telemetry |-> t, distance |-> d] :
        t \in UNION {[1..n -> {LocSample(x) : x \in 0..MaxDistance}] :
                        n \in 1..MaxSamples},
        d \in 0..MaxDistance}
    \cup {[telemetry |-> ExampleTelemetry, distance |-> d] : d \in {15, 24}}

InitLocator == ChartInit /\ arg \in LocatorInputs /\ ret = Pending

Locate ==
    /\ ~ret.done
    /\ ret' = [done |-> TRUE,
               tc |-> tcNearest(arg.telemetry, arg.distance),
               mt |-> mtNearest(arg.telemetry, arg.distance),
               tm |-> tmNearest(arg.telemetry, arg.distance)]
    /\ UNCHANGED <<app, lapTable, arg, rect, telemetryChart, multiTelemetry, trackMap, lastCall>>

SpecLocator == InitLocator /\ [][Locate]_vars

\* ------------------------------------------------------------------------
\* Delta estimator on bounded inputs
\* ------------------------------------------------------------------------

MaxRefSamples == 2

\* time_ms and speed of the samples: a sample without a time offset, one at
\* offset 0 ms and samples at later offsets, at two speeds, and a sample
\* that has neither a time offset nor a speed property.
DeltaTimings ==
    {<<null, 100>>, <<null, 250>>, <<0, 100>>, <<0, 250>>,
     <<1000, 100>>, <<2500, 250>>, <<undefined, undefined>>}

DeltaSamples ==
    {Pt(d, ts[1], ts[2], null, null) : d \in {0, 10}, ts \in DeltaTimings}

\* A sample of another lap against the reference lap with samples t.
OtherLapInput(p, t) ==
    [point |-> p, lap |-> Lap(2, <<p>>), referenceLap |-> Lap(1, t)]

\* Sample k of the reference lap itself.
ReferenceLapInput(t, k) ==
    [point |-> t[k], lap |-> Lap(1, t), referenceLap |-> Lap(1, t)]

InitDelta ==
    /\ ChartInit
    /\ ret = Pending
    /\ \E n \in 0..MaxRefSamples : \E t \in [1..n -> DeltaSamples] :
          \/ \E p \in DeltaSamples : arg = OtherLapInput(p, t)
          \/ \E k \in 1..n : arg = ReferenceLapInput(t, k)

Estimate ==
    /\ ~ret.done
    /\ ret' = [done |-> TRUE,
               delta |-> calculateDelta(arg.point, arg.lap, arg.referenceLap)]
    /\ UNCHANGED <<app, lapTable, arg, rect, telemetryChart, multiTelemetry, trackMap, lastCall>>

SpecDelta == InitDelta /\ [][Estimate]_vars

\* ------------------------------------------------------------------------
\* Corner detector on bounded inputs: synthetic laps given by a speed
\* profile, a length, a distance spacing and a sample order.
\* ------------------------------------------------------------------------

MaxLen == 50

\* Speed of sample i (0-based) of the profile.
ProfileSpeed(a, i) ==
    CASE a.shape = "constant"   -> a.base
      [] a.shape = "increasing" -> a.base + i
      [] a.shape = "decreasing" -> a.base + a.n - i
      \* strictly increasing with a jump in the middle of the lap
      [] a.shape = "convexInc"  -> IF 2 * i < a.n THEN i + 1 ELSE 1000 + i
      \* strictly decreasing with a drop in the middle of the lap
      [] a.shape = "concaveDec" -> IF 2 * i < a.n THEN 1000 + a.n - i
                                   ELSE a.n - i
      \* 300 except 10 samples centred on index a.centre at 200
      [] a.shape = "dip"        -> IF i \in (a.centre - 5)..(a.centre + 4)
                                   THEN 200 ELSE 300
      \* 300 except one sample at index a.centre, of speed a.depth1, and
      \* one sample at index a.centre + a.gap, of speed a.depth2
      [] a.shape = "twoDips"    -> IF i = a.centre THEN a.depth1
                                   ELSE IF i = a.centre + a.gap THEN a.depth2
                                   ELSE 300
      \* 300 except one sample at index a.centre, of speed a.depth
      [] a.shape = "notch"      -> IF i = a.centre THEN a.depth ELSE 300

\* Distance of sample i (0-based): increasing with the index, or, for a
\* lap whose samples arrive in reverse order, decreasing.  The spacing is
\* a.step throughout, except that a profile with a jump has the samples
\* from position a.jumpAt on a.jump distance units farther along.
ProfileDistance(a, i) ==
    LET pos == IF a.order = "asc" THEN i ELSE a.n - 1 - i
    IN  pos * a.step
            + (IF "jump" \in DOMAIN a /\ pos >= a.jumpAt THEN a.jump ELSE 0)

ProfileTelemetry(a) ==
    [k \in 1..a.n |->
        Pt(ProfileDistance(a, k - 1), null, ProfileSpeed(a, k - 1), k, 0)]

MonotoneShapes == {"increasing", "decreasing", "convexInc", "concaveDec"}

\* Two one-sample dips, gap samples apart: equally deep or not, close
\* together or far apart in samples and in distance.
TwoDipInputs ==
    {[shape |-> "twoDips", base |-> 300, n |-> 80, step |-> st,
      order |-> "asc", centre |-> 30, gap |-> g,
      depth1 |-> dp[1], depth2 |-> dp[2]] :
        st \in {1, 10, 20, 34, 50, 67, 101, 201}, g \in {2, 3, 5, 6, 10, 25},
        dp \in {<<200, 200>>, <<200, 100>>, <<100, 200>>}}

DetectorInputs ==
    {[shape |-> "constant", base |-> b, n |-> n, step |-> st,
      order |-> o, centre |-> 0] :
        b \in {0, 300}, n \in 0..MaxLen, st \in {1, 201}, o \in {"asc"}}
    \cup
    {[shape |-> sh, base |-> b, n |-> n, step |-> st,
      order |-> o, centre |-> 0] :
        sh \in MonotoneShapes, b \in {0, 100}, n \in 0..MaxLen,
        st \in {1, 201}, o \in {"asc"}}
    \cup
    \* One dip of 10 samples wholly inside the lap: laps shorter than, as
    \* long as and longer than the 41 samples of one scan window; the dip
    \* before, across the start of, inside, across the end of and behind
    \* the scanned index range; even spacings, and spacings with a jump of
    \* 150 distance units inside the dip.
    UNION {
        {[shape |-> "dip", base |-> 300, n |-> n, step |-> st,
          order |-> o, centre |-> c, jump |-> jp, jumpAt |-> c + 2] :
            c \in {m \in {5, 20, 22, 30, 50, 65, 80, 94} : m + 4 <= n - 1},
            st \in {0, 1, 10, 22, 23, 25, 201}, o \in {"asc", "desc"},
            jp \in {0, 150}} :
        n \in {30, 40, 41, 45, 80, 100}}
    \cup TwoDipInputs

InitDetector == ChartInit /\ arg \in DetectorInputs /\ ret = Pending

Detect ==
    /\ ~ret.done
    /\ ret' = [done |-> TRUE, turns |-> detectTurns(ProfileTelemetry(arg))]
    /\ UNCHANGED <<app, lapTable, arg, rect, telemetryChart, multiTelemetry, trackMap, lastCall>>

SpecDetector == InitDetector /\ [][Detect]_vars

\* ------------------------------------------------------------------------
\* Properties of the reference lap and of the loaded samples
\* ------------------------------------------------------------------------

loadedLaps(chart) ==
    IF dataEmpty(chart.lastData) THEN {}
    ELSE {chart.lastData.laps[i] : i \in 1..Len(chart.lastData.laps)}

\* C1: with laps loaded (each with samples), once setReferenceLap(L) has
\* returned for a loaded lap L, the chart's reference lap is L and the delta
\* values drawn are computed against L: the delta drawn for L is 0 at every
\* sample.
C1_SetReferenceLapTakesEffect ==
    (/\ lastCall.op = "setReferenceLap"
     /\ lastCall.lap \in loadedLaps(multiTelemetry)
     /\ \A lap \in loadedLaps(multiTelemetry) : ~NoSamples(lap)) =>
        /\ multiTelemetry.referenceLap = lastCall.lap
        /\ \A i \in 1..Len(multiTelemetry.delta) :
              multiTelemetry.lastData.laps[i] = lastCall.lap =>
                  \A k \in 1..Len(multiTelemetry.delta[i]) :
                      multiTelemetry.delta[i][k] = 0

ImplicitCalls ==
    {"update", "handleResize", "multiTelemetry.handleMouseMove",
     "telemetry.handleMouseMove", "setSelectedDistance"}

\* The reference lap is the one the last call, a set-reference call, gave.
ExplicitlySet ==
    /\ lastCall.op = "setReferenceLap"
    /\ lastCall.lap # none
    /\ multiTelemetry.referenceLap = lastCall.lap

\* C2: the reference lap is changed only by an explicit set-reference
\* call, never implicitly: a redraw (update) of the laps that are loaded, a
\* resize and a pointer-move event leave the reference lap as it is, and
\* once the reference lap has been set explicitly, a step that is not a
\* set-reference call and that draws laps among which the reference lap is
\* leaves it the reference.
C2_ReferenceOnlyExplicit ==
    [][/\ lastCall'.op \in ImplicitCalls =>
              multiTelemetry'.referenceLap = multiTelemetry.referenceLap
       /\ (/\ ExplicitlySet
           /\ lastCall'.op # "setReferenceLap"
           /\ lastCall.lap \in loadedLaps(multiTelemetry')) =>
              multiTelemetry'.referenceLap = multiTelemetry.referenceLap]_vars

SortedByDistance(samples) ==
    \A k \in 1..(Len(samples) - 1) :
        samples[k].distance <= samples[k + 1].distance

\* C6: after a load, the sample sequences the charts hold, and the points
\* the corner detector scans, are in non-decreasing distance order.
C6_LoadedSamplesSorted ==
    /\ \A lap \in loadedLaps(telemetryChart) \cup loadedLaps(multiTelemetry)
                      \cup loadedLaps(trackMap) :
          SortedByDistance(TelemetryOf(lap))
    /\ \A lap \in loadedLaps(trackMap) :
          SortedByDistance(turnPoints(TelemetryOf(lap)))

\* C7: a loaded lap set in which some lap has zero samples never makes a
\* handler throw, and the lookups answer "no result" (0) for the lap
\* without samples.
C7_EmptyInputNeverRaises ==
    (\E lap \in loadedLaps(multiTelemetry) : NoSamples(lap)) =>
        /\ ~multiTelemetry.threw
        /\ lastCall.found # none =>
              \A i \in 1..Len(lastCall.found.points) :
                  NoSamples(multiTelemetry.lastData.laps[i])
                      => lastCall.found.points[i] = 0

\* ------------------------------------------------------------------------
\* Properties of the nearest-sample locator and the delta estimator
\* ------------------------------------------------------------------------

\* k is the lowest index among the samples nearest to distance.
LowestNearest(telemetry, distance, k) ==
    /\ k \in 1..Len(telemetry)
    /\ \A j \in 1..Len(telemetry) :
          /\ Abs(telemetry[k].distance - distance)
                 <= Abs(telemetry[j].distance - distance)
          /\ j < k => Abs(telemetry[k].distance - distance)
                          < Abs(telemetry[j].distance - distance)

\* C3: for every non-empty sample sequence and target distance, each of the
\* three lookup sites (speed chart cursor, multi-channel cursor, track-map
\* marker) returns a sample nearest to the target, the lowest-index one
\* among equally near samples; hence the three sites agree, and on
\* distances [0,10,20,30] target 24 gives the sample at 20 and target 15
\* the sample at 10.
C3_NearestLowestIndex ==
    ret.done =>
        /\ LowestNearest(arg.telemetry, arg.distance, ret.tc)
        /\ LowestNearest(arg.telemetry, arg.distance, ret.mt)
        /\ LowestNearest(arg.telemetry, arg.distance, ret.tm)
        /\ (arg.telemetry = ExampleTelemetry /\ arg.distance = 24)
               => arg.telemetry[ret.tc].distance = 20
        /\ (arg.telemetry = ExampleTelemetry /\ arg.distance = 15)
               => arg.telemetry[ret.tc].distance = 10

\* A tie is resolved: the example's target 15 lies midway between the
\* samples at 10 and 20 and all three sites answer the sample at 10.
C3_Witness ==
    /\ ret.done
    /\ arg.telemetry = ExampleTelemetry /\ arg.distance = 15
    /\ ret.tc = 2 /\ ret.mt = 2 /\ ret.tm = 2

\* The reference sample the estimator is specified to use.
NearestRef(a) ==
    a.referenceLap.telemetry[
        CHOOSE k \in 1..Len(a.referenceLap.telemetry) :
            LowestNearest(a.referenceLap.telemetry, a.point.distance, k)]

\* C4: for a sample of a lap other than the reference lap, the delta is
\* exactly (target time - reference time) / 1000 whenever both the target
\* sample and the nearest reference sample carry a time offset, an offset
\* of 0 ms included, and the speed estimate (reference.speed -
\* target.speed) * 0.01 only when one of them lacks a time offset.
C4_ExactWheneverTimed ==
    (ret.done /\ arg.lap # arg.referenceLap
        /\ Len(arg.referenceLap.telemetry) > 0) =>
        /\ ~ret.delta.threw
        /\ IF ~Nullish(arg.point.time_ms)
                /\ ~Nullish(NearestRef(arg).time_ms)
           THEN ret.delta.value = arg.point.time_ms - NearestRef(arg).time_ms
           ELSE ret.delta.value =
                    Times(Minus(ToNumber(NearestRef(arg).speed),
                                ToNumber(arg.point.speed)), 10)

\* C5: when the lap being evaluated is the reference lap, the delta is 0
\* for every one of its samples, whatever their speeds and time offsets.
C5_ReferenceDeltaZero ==
    (ret.done /\ arg.lap = arg.referenceLap) =>
        ret.delta = Returned(0)

\* The identity case on a reference lap whose own nearest sample differs
\* from the evaluated one in speed and time (two samples at one distance).
C5_Witness ==
    /\ ret.done /\ arg.lap = arg.referenceLap
    /\ Len(arg.lap.telemetry) = 2
    /\ arg.point = arg.lap.telemetry[2]
    /\ arg.lap.telemetry[1].distance = arg.point.distance
    /\ arg.lap.telemetry[1].speed # arg.point.speed
    /\ Truthy(arg.point.time_ms) /\ Truthy(arg.lap.telemetry[1].time_ms)
    /\ arg.lap.telemetry[1].time_ms # arg.point.time_ms
    /\ ret.delta = Returned(0)

\* ------------------------------------------------------------------------
\* Properties of the corner detector
\* ------------------------------------------------------------------------

StrictlyByDistance(turns) ==
    \A k \in 1..(Len(turns) - 1) : turns[k].distance < turns[k + 1].distance

\* C8: for every input lap the corner markers are strictly ordered by
\* distance: each marker's distance is strictly greater than the distance
\* of the marker emitted before it.
C8_MarkersStrictlyOrdered ==
    ret.done => StrictlyByDistance(ret.turns)

\* The dip of a "dip" profile, as 1-based indexes.
DipFirst(a) == a.centre - 5 + 1
DipLast(a) == a.centre + 4 + 1

InDip(a, turn) ==
    \E k \in DipFirst(a)..DipLast(a) :
        /\ turn.distance = ProfileDistance(a, k - 1)
        /\ turn.x = k

\* C9 as stated: on the one-dip profile the detector yields exactly one
\* marker, located in the dip, for any increasing distance spacing.
C9_OneDipOneMarker ==
    (ret.done /\ arg.shape = "dip" /\ arg.order = "asc" /\ arg.step > 0) =>
        /\ Len(ret.turns) = 1
        /\ InDip(arg, ret.turns[1])

\* The dip samples (1-based indexes) inside the scanned index range, whose
\* 0-based indexes are W .. n - W - 1.
InRangeDip(a) ==
    {k \in DipFirst(a)..DipLast(a) :
        windowSize + 1 <= k /\ k <= a.n - windowSize}

\* The dip samples that get a marker by the rule of the amended claim,
\* from dip sample k on, chosen being those before k: the first dip sample
\* in the scanned range, and each later one in the range whose distance is
\* more than 200 units past the last one chosen.
RECURSIVE DipMarkers(_, _, _)
DipMarkers(a, k, chosen) ==
    IF k > DipLast(a) THEN chosen
    ELSE IF /\ k \in InRangeDip(a)
            /\ \/ chosen = <<>>
               \/ ProfileDistance(a, k - 1)
                      - ProfileDistance(a, chosen[Len(chosen)] - 1)
                          > minTurnGap
         THEN DipMarkers(a, k + 1, Append(chosen, k))
         ELSE DipMarkers(a, k + 1, chosen)

\* C9 amended: on the one-dip profile with strictly increasing distances
\* the markers are exactly the first dip sample inside the scanned index
\* range and each later dip sample inside it that lies more than 200
\* distance units past the last marker.  So every marker lies in the dip;
\* there is no marker exactly when no dip sample is in the scanned range;
\* and there is exactly one marker exactly when some dip sample is in the
\* range and those in it span no more than 200 distance units.
C9_OneDipOneMarkerWithinGap ==
    (ret.done /\ arg.shape = "dip" /\ arg.order = "asc" /\ arg.step > 0) =>
        LET inRange == InRangeDip(arg)
            lo == CHOOSE k \in inRange : \A m \in inRange : k <= m
            hi == CHOOSE k \in inRange : \A m \in inRange : k >= m
        IN  /\ [k \in 1..Len(ret.turns) |-> ret.turns[k].x]
                   = DipMarkers(arg, DipFirst(arg), <<>>)
            /\ \A k \in 1..Len(ret.turns) : InDip(arg, ret.turns[k])
            /\ (Len(ret.turns) = 0) <=> (inRange = {})
            /\ (Len(ret.turns) = 1) <=>
                   /\ inRange # {}
                   /\ ProfileDistance(arg, hi - 1)
                          - ProfileDistance(arg, lo - 1) <= minTurnGap

\* A lap of 100 samples whose dip (indexes 15..24) lies across the start of
\* the scanned range, at an uneven spacing: the five dip samples in the
\* range span 190 distance units, and the one marker is at index 20, the
\* first dip sample in the range, not at the dip's first sample.
C9_Witness ==
    /\ ret.done /\ arg.shape = "dip" /\ arg.order = "asc"
    /\ arg.n = 100 /\ arg.centre = 20 /\ arg.step = 10 /\ arg.jump = 150
    /\ Len(ret.turns) = 1
    /\ ret.turns[1].x = 21 /\ ret.turns[1].speed = 200
    /\ ret.turns[1].distance = 200

\* C10: on a constant or strictly monotonic speed profile the detector
\* yields zero markers, for every lap length.
C10_MonotoneNoMarkers ==
    (ret.done /\ arg.shape \in MonotoneShapes \cup {"constant"}) =>
        ret.turns = <<>>

\* A strictly increasing lap that has samples well below the average of
\* their surroundings (candidates), none of which becomes a marker.
C10_Witness ==
    /\ ret.done /\ arg.shape = "convexInc" /\ arg.n = MaxLen
    /\ \E i \in (windowSize + 1)..(arg.n - windowSize) :
          slowerThanSurrounding(turnPoints(ProfileTelemetry(arg)), i)
    /\ ret.turns = <<>>

\* ------------------------------------------------------------------------
\* Track projection: TrackMapChart.setupScales(data)
\* JavaScript numbers that come out of a division are fractions n/d with
\* d > 0; d = 0 is a non-finite value: Infinity (n = 1), -Infinity
\* (n = -1) or NaN (n = 0).
\* ------------------------------------------------------------------------

Num(n, d) == [n |-> n, d |-> d]
NaN == Num(0, 0)
Finite(x) == x.d > 0
IsNaN(x) == x.d = 0 /\ x.n = 0
Sign(i) == IF i > 0 THEN 1 ELSE IF i < 0 THEN 0 - 1 ELSE 0

\* a / b on integers: x / 0 is Infinity, -Infinity or (0 / 0) NaN.
NumDiv(a, b) ==
    IF b = 0 THEN Num(Sign(a), 0) ELSE Num(a * Sign(b), Abs(b))

\* i * x for an integer i: 0 * Infinity is NaN.
NumMulInt(i, x) ==
    IF Finite(x) THEN Num(i * x.n, x.d) ELSE Num(Sign(i) * x.n, 0)

NumNeg(x) == Num(0 - x.n, x.d)

\* x + y: NaN propagates, Infinity + -Infinity is NaN.
NumAdd(x, y) ==
    IF Finite(x) /\ Finite(y) THEN Num(x.n * y.d + y.n * x.d, x.d * y.d)
    ELSE IF IsNaN(x) \/ IsNaN(y) THEN NaN
    ELSE IF Finite(x) THEN y
    ELSE IF Finite(y) THEN x
    ELSE IF x.n = y.n THEN x ELSE NaN

NumSub(x, y) == NumAdd(x, NumNeg(y))

\* x in place of x / 2
NumWhole(x) == x

\* x / 2
NumHalf(x) == IF Finite(x) THEN Num(x.n, 2 * x.d) ELSE x

\* x < y in place of x > y
NumLt(x, y) ==
    IF IsNaN(x) \/ IsNaN(y) THEN FALSE
    ELSE IF Finite(x) /\ Finite(y) THEN x.n * y.d < y.n * x.d
    ELSE IF Finite(x) THEN y.n > 0
    ELSE IF Finite(y) THEN x.n < 0
    ELSE x.n < y.n

\* x > y: false when either is NaN.
NumGt(x, y) ==
    IF IsNaN(x) \/ IsNaN(y) THEN FALSE
    ELSE IF Finite(x) /\ Finite(y) THEN x.n * y.d > y.n * x.d
    ELSE IF Finite(x) THEN y.n < 0
    ELSE IF Finite(y) THEN x.n > 0
    ELSE x.n > y.n

\* Equality of finite numbers.
NumEq(x, y) == Finite(x) /\ Finite(y) /\ x.n * y.d = y.n * x.d

\* data.laps.flatMap(l => (l.telemetry || []).filter(p => p.x != null &&
\* p.y != null))
positionPoints(data) ==
    SelectSeq(FlatTelemetry(data.laps, 1),
              LAMBDA p : ~Nullish(p.x) /\ ~Nullish(p.y))

\* d3.extent of a non-empty sequence of numbers: <<min, max>>.
d3extent(vals) ==
    LET S == {vals[k] : k \in 1..Len(vals)}
    IN  <<CHOOSE v \in S : \A u \in S : v <= u,
          CHOOSE v \in S : \A u \in S : v >= u>>

\* TrackMapChart.setupScales with this.width = width and this.height =
\* height: the scales it assigns (with the locals scale, offsetX, offsetY
\* it computes them from), or the scales the chart had when it returns
\* early.
tmSetupScales(data, width, height, scales) ==
    IF dataEmpty(data) THEN scales
    ELSE IF Len(positionPoints(data)) = 0 THEN scales
    ELSE LET allPoints == positionPoints(data)
             xExtent == d3extent([k \in 1..Len(allPoints) |-> allPoints[k].x])
             yExtent == d3extent([k \in 1..Len(allPoints) |-> allPoints[k].y])
             dataWidth == xExtent[2] - xExtent[1]
             dataHeight == yExtent[2] - yExtent[1]
             dataAspect == NumDiv(dataWidth, dataHeight)
             chartAspect == NumDiv(width, height)
             scale == IF NumGt(dataAspect, chartAspect)
                      THEN NumDiv(width, dataWidth)
                      ELSE NumDiv(height, dataHeight)
             offsetX == NumHalf(NumSub(Num(width, 1),
                                       NumMulInt(dataWidth, scale)))
             offsetY == NumHalf(NumSub(Num(height, 1),
                                       NumMulInt(dataHeight, scale)))
         IN  [scale |-> scale, offsetX |-> offsetX, offsetY |-> offsetY,
              xScale |-> [domain |-> xExtent,
                          range |-> <<offsetX,
                                      NumAdd(offsetX,
                                             NumMulInt(dataWidth, scale))>>],
              yScale |-> [domain |-> yExtent,
                          range |-> <<NumSub(Num(height, 1), offsetY),
                                      offsetY>>]]

\* ------------------------------------------------------------------------
\* Track projection on bounded inputs
\* ------------------------------------------------------------------------

\* The largest x and y coordinate of a position sample.
MaxCoord == 3

\* Samples with a position, and one without.
PositionSamples ==
    {Pt(0, null, 100, px, py) : px \in 0..MaxCoord, py \in 0..MaxCoord}
    \cup {Pt(0, null, 100, null, null)}

\* this.width and this.height of the track map.
Viewports ==
    {[width |-> 960, height |-> 560], [width |-> 300, height |-> 700],
     [width |-> 7, height |-> 7], [width |-> 1, height |-> 3]}

InitProjector ==
    /\ ChartInit
    /\ ret = Pending
    /\ \E n \in 0..2 : \E t \in [1..n -> PositionSamples] :
       \E v \in Viewports :
          arg = [data |-> [laps |-> <<Lap(1, t)>>, selectedDistance |-> undefined],
                 width |-> v.width, height |-> v.height]

Project ==
    /\ ~ret.done
    /\ ret' = [done |-> TRUE,
               scales |-> tmSetupScales(arg.data, arg.width, arg.height,
                                        none)]
    /\ UNCHANGED <<app, lapTable, arg, rect, telemetryChart, multiTelemetry, trackMap, lastCall>>

SpecProjector == InitProjector /\ [][Project]_vars

\* ------------------------------------------------------------------------
\* Channel layout: MultiTelemetryChart.setupScales and getChannelDomain.
\* Heights, offsets and domain bounds are in hundredths (value * 100), so
\* that height * 0.35 and max * 1.05 are integers.
\* ------------------------------------------------------------------------

\* this.channels
channels == <<"speed", "delta", "throttle", "rpm", "gear", "drs">>

\* this.channelHeights, as percentages
channelHeights ==
    [speed |-> 35, delta |-> 15, throttle |-> 15, rpm |-> 15,
     gear |-> 10, drs |-> 10]

\* const padding = 10
padding == 10

\* d.rpm of a sample; undefined when the sample has no such property.
rpmOf(p) == IF "rpm" \in DOMAIN p THEN p.rpm ELSE undefined

\* getChannelDomain(channel, points): <<lo, hi>> in hundredths.
getChannelDomain(channel, points) ==
    CASE channel = "speed" ->
             <<0, d3maxOr([k \in 1..Len(points) |-> points[k].speed], 350)
                      * 105>>
      [] channel = "delta" -> <<0 - 200, 200>>
      [] channel = "throttle" -> <<0, 10000>>
      [] channel = "rpm" ->
             <<0, d3maxOr([k \in 1..Len(points) |-> rpmOf(points[k])], 15000)
                      * 105>>
      [] channel = "gear" -> <<0, 800>>
      [] channel = "drs" -> <<0, 100>>
      [] OTHER -> <<0, 10000>>

\* channelHeight without "- padding"
channelHeightUnpadded(height, channel) ==
    height * channelHeights[channel]

\* const channelHeight = this.height * this.channelHeights[channel] - padding
channelHeight(height, channel) ==
    height * channelHeights[channel] - padding * 100

\* yOffset at the start of the iteration for channel k (1-based): the sum
\* of channelHeight + padding over the channels before it.
RECURSIVE yOffsetAt(_, _)
yOffsetAt(height, k) ==
    IF k = 1 THEN 0
    ELSE yOffsetAt(height, k - 1)
             + channelHeight(height, channels[k - 1]) + padding * 100

\* The channel part of setupScales with this.height = height:
\* this.channelScales after the call, one entry per channel in the order
\* of this.channels; the entries the chart had when there are no laps.
setupChannelScales(data, height, channelScales) ==
    IF dataEmpty(data) THEN channelScales
    ELSE LET allPoints == FlatTelemetry(data.laps, 1)
         IN  [k \in 1..Len(channels) |->
                 [channel |-> channels[k],
                  domain |-> getChannelDomain(channels[k], allPoints),
                  height |-> channelHeight(height, channels[k]),
                  offset |-> yOffsetAt(height, k)]]

\* ------------------------------------------------------------------------
\* Channel layout on bounded inputs
\* ------------------------------------------------------------------------

\* The largest of the small chart heights (this.height).
MaxHeight == 12

\* Samples whose speed and rpm are missing, 0 or positive.
ChannelSamples ==
    {[distance |-> 0, time_ms |-> null, speed |-> sp, x |-> null,
      y |-> null, rpm |-> rp] :
        sp \in {null, 0, 300}, rp \in {null, 0, 12000}}

\* No laps, or one lap with up to two samples.
ChannelDatas ==
    {[laps |-> <<>>, selectedDistance |-> undefined]}
    \cup {[laps |-> <<Lap(1, t)>>, selectedDistance |-> undefined] :
             t \in UNION {[1..n -> ChannelSamples] : n \in 0..2}}

InitLayout ==
    /\ ChartInit
    /\ ret = Pending
    /\ \E data \in ChannelDatas : \E h \in (1..MaxHeight) \cup {550} :
          arg = [data |-> data, height |-> h]

Layout ==
    /\ ~ret.done
    /\ ret' = [done |-> TRUE,
               channelScales |->
                   setupChannelScales(arg.data, arg.height, none)]
    /\ UNCHANGED <<app, lapTable, arg, rect, telemetryChart, multiTelemetry, trackMap, lastCall>>

SpecLayout == InitLayout /\ [][Layout]_vars

\* ------------------------------------------------------------------------
\* Properties of the channel layout
\* ------------------------------------------------------------------------

RECURSIVE SumOfHeights(_, _)
SumOfHeights(bands, k) ==
    IF k > Len(bands) THEN 0 ELSE bands[k].height + SumOfHeights(bands, k + 1)

\* C14: the band heights plus (count - 1) paddings add up to the total
\* height (all in hundredths).
C14_BandsFillHeight ==
    (ret.done /\ ret.channelScales # none) =>
        SumOfHeights(ret.channelScales, 1)
            + (Len(ret.channelScales) - 1) * padding * 100
          = arg.height * 100

\* C14, amended: every band, the last one included, gives up one padding:
\* the band heights plus count paddings add up to the total height, the
\* first band starts at offset 0 and each further band starts one padding
\* below the end of the band before it.
C14_BandsAndPaddingsFillHeight ==
    (ret.done /\ ret.channelScales # none) =>
        LET bands == ret.channelScales
        IN  /\ Len(bands) = Len(channels)
            /\ SumOfHeights(bands, 1) + Len(bands) * padding * 100
                   = arg.height * 100
            /\ bands[1].offset = 0
            /\ \A k \in 1..(Len(bands) - 1) :
                  bands[k + 1].offset
                      = bands[k].offset + bands[k].height + padding * 100
            /\ \A k \in 1..Len(bands) :
                  bands[k].height
                      = arg.height * channelHeights[channels[k]]
                            - padding * 100

\* Height 550: the speed band is 182.5 high at offset 0, the last band
\* (drs) is 45 high and ends at 540, one padding above the bottom.
C14_Witness ==
    /\ ret.done /\ ret.channelScales # none /\ arg.height = 550
    /\ ret.channelScales[1].height = 18250
    /\ ret.channelScales[6].height = 4500
    /\ ret.channelScales[6].offset + ret.channelScales[6].height = 54000

\* C15: for every loaded lap set with at least one lap, also when the
\* laps have no samples or the maximum speed or rpm is 0 or missing, every
\* channel has a value domain <<lo, hi>> with lo < hi; the speed and rpm
\* domains are [0, 1.05 * max] for a positive maximum and the fixed
\* defaults [0, 1.05 * 350] and [0, 1.05 * 15000] otherwise.
C15_DomainsNonDegenerate ==
    (ret.done /\ ret.channelScales # none) =>
        LET bands == ret.channelScales
            allPoints == FlatTelemetry(arg.data.laps, 1)
            positive(f(_)) ==
                {f(allPoints[k]) : k \in 1..Len(allPoints)}
                    \ {null, undefined, 0}
            hiOf(S, default) ==
                IF S = {} THEN default * 105
                ELSE (CHOOSE v \in S : \A u \in S : v >= u) * 105
            speedOf(q) == q.speed
        IN  /\ \A k \in 1..Len(bands) :
                  bands[k].domain[1] < bands[k].domain[2]
            /\ {bands[k].channel : k \in 1..Len(bands)}
                   = {channels[k] : k \in 1..Len(channels)}
            /\ bands[1].channel = "speed"
            /\ bands[1].domain = <<0, hiOf(positive(speedOf), 350)>>
            /\ bands[4].channel = "rpm"
            /\ bands[4].domain = <<0, hiOf(positive(rpmOf), 15000)>>

\* A lap whose samples all have speed 0 and no rpm gets the default
\* domains [0, 367.5] and [0, 15750].
C15_Witness ==
    /\ ret.done /\ ret.channelScales # none
    /\ Len(arg.data.laps[1].telemetry) = 2
    /\ \A k \in 1..2 : /\ arg.data.laps[1].telemetry[k].speed = 0
                       /\ Nullish(arg.data.laps[1].telemetry[k].rpm)
    /\ ret.channelScales[1].domain = <<0, 36750>>
    /\ ret.channelScales[4].domain = <<0, 1575000>>

\* ------------------------------------------------------------------------
\* Delta channel of a comparison lap that is a time-shifted copy of the
\* reference lap, on bounded inputs
\* ------------------------------------------------------------------------

\* The most samples of the two laps.
MaxShiftSamples == 2

\* Sample k of a lap: distance 10 * (k - 1), the time offset and speed
\* given.
ShiftSample(k, t, sp) == Pt(10 * (k - 1), t, sp, null, null)

\* The reference lap and a comparison lap with the same distances, the
\* reference's time offsets shifted by c, and speeds of its own.
ShiftInput(n, times, refSpeeds, speeds, c) ==
    [referenceLap |->
         Lap(1, [k \in 1..n |-> ShiftSample(k, times[k], refSpeeds[k])]),
     lap |->
         Lap(2, [k \in 1..n |-> ShiftSample(k, times[k] + c, speeds[k])]),
     shift |-> c]

InitShift ==
    /\ ChartInit
    /\ ret = Pending
    /\ \E n \in 1..MaxShiftSamples :
       \E times \in [1..n -> {0, 1000, 2500}] :
       \E refSpeeds \in [1..n -> {100, 250}] :
       \E speeds \in [1..n -> {100, 250}] :
       \E c \in {0 - 1000, 0, 500} :
          /\ \A k \in 1..n : times[k] + c >= 0
          /\ \A k \in 1..(n - 1) : times[k] < times[k + 1]
          /\ arg = ShiftInput(n, times, refSpeeds, speeds, c)

\* The delta channel drawn for the comparison lap, the second of the two
\* laps loaded, against the reference lap.
DrawShifted ==
    /\ ~ret.done
    /\ ret' = [done |-> TRUE,
               delta |-> deltaChannel(
                             [laps |-> <<arg.referenceLap, arg.lap>>,
                              selectedDistance |-> undefined],
                             arg.referenceLap)[2]]
    /\ UNCHANGED <<app, lapTable, arg, rect, telemetryChart, multiTelemetry, trackMap, lastCall>>

SpecShift == InitShift /\ [][DrawShifted]_vars

\* C16: for a comparison lap with the reference lap's distances and the
\* reference lap's time offsets shifted by c, every sample timed, the
\* delta is c (here in ms) at every sample of the comparison lap.
C16_ShiftedLapDeltaIsShift ==
    ret.done =>
        \A k \in 1..Len(ret.delta) : ret.delta[k] = Returned(arg.shift)

\* ------------------------------------------------------------------------
\* The track map on its own: update, setSelectedDistance and resize on one
\* TrackMapChart, with laps long enough for the corner scan.
\* ------------------------------------------------------------------------

\* The most laps in one lap set given to the track map.
MaxTrackLaps == 2

\* A lap of 60 positioned samples, 10 distance units apart, with one dip
\* (samples 25..34): the corner scan gives one marker.
LongLap ==
    Lap(5, ProfileTelemetry([shape |-> "dip", base |-> 300, n |-> 60,
                             step |-> 10, order |-> "asc", centre |-> 30]))

\* The long lap, a lap without samples, a lap of two positioned samples
\* and a lap whose only sample has no position.
TrackLapPool ==
    {LongLap,
     Lap(1, <<>>),
     Lap(2, <<Pt(0, 0, 100, 0, 0), Pt(2, 400, 200, 4, 0)>>),
     Lap(6, <<Pt(0, null, 100, null, null)>>)}

TrackDatas ==
    {[laps |-> l, selectedDistance |-> undefined] :
        l \in {q \in UNION {[1..n -> TrackLapPool] : n \in 0..MaxTrackLaps} :
                  \A i, j \in 1..Len(q) : i # j => q[i].oid # q[j].oid}}

\* The number of times TrackMapChart.render(data) calls
\* detectAndDrawTurns: once when some lap has position data.
tmScans(data) ==
    IF dataEmpty(data) THEN 0
    ELSE IF \E i \in 1..Len(data.laps) : hasPosition(data.laps[i]) THEN 1
    ELSE 0

\* What a call on the track map did: the corner scans it ran.
Scanned(n) == [scans |-> n]

\* trackMap.update(data): a lap load
TrackUpdate(data) ==
    /\ trackMap' = tmUpdate(trackMap, data, rect)
    /\ lastCall' = Called("trackMap.update", none, Scanned(tmScans(data)))
    /\ UNCHANGED <<app, lapTable, rect, telemetryChart, multiTelemetry, arg, ret>>

\* trackMap.setSelectedDistance(d): a cursor move
TrackSetSelectedDistance(d) ==
    /\ trackMap' =
           IF trackMap.lastData # none
           THEN tmUpdate(trackMap,
                         [trackMap.lastData EXCEPT !.selectedDistance = d],
                         rect)
           ELSE trackMap
    /\ lastCall' = Called("trackMap.setSelectedDistance", none,
                          Scanned(IF trackMap.lastData # none
                                  THEN tmScans(trackMap.lastData) ELSE 0))
    /\ UNCHANGED <<app, lapTable, rect, telemetryChart, multiTelemetry, arg, ret>>

\* trackMap.resize()
TrackResize(r) ==
    /\ rect' = r
    /\ trackMap' = tmResize(trackMap, r)
    /\ lastCall' = Called("trackMap.resize", none,
                          Scanned(IF trackMap.lastData # none
                                  THEN tmScans(trackMap.lastData) ELSE 0))
    /\ UNCHANGED <<app, lapTable, telemetryChart, multiTelemetry, arg, ret>>

\* trackMap.clear() and trackMap.destroy(): the markers drawn are removed;
\* no corner scan runs.
TrackClear ==
    /\ trackMap' = tmClear(trackMap)
    /\ lastCall' = Called("trackMap.clear", none, Scanned(0))
    /\ UNCHANGED <<app, lapTable, rect, telemetryChart, multiTelemetry, arg, ret>>

TrackDestroy ==
    /\ trackMap' = tmClear(trackMap)
    /\ lastCall' = Called("trackMap.destroy", none, Scanned(0))
    /\ UNCHANGED <<app, lapTable, rect, telemetryChart, multiTelemetry, arg, ret>>

NextTrackMap ==
    \/ TrackClear
    \/ TrackDestroy
    \/ \E data \in TrackDatas : TrackUpdate(data)
    \/ \E d \in 0..MaxTarget : TrackSetSelectedDistance(d)
    \/ \E r \in Rects : TrackResize(r)

SpecTrackMap == Init /\ [][NextTrackMap]_vars

\* ------------------------------------------------------------------------
\* Properties of the charts' stored state
\* ------------------------------------------------------------------------

\* C17: after any sequence of loads (of empty or non-empty lap sets),
\* set-reference calls and resizes, the reference lap is unset or one of
\* the laps of the currently loaded set.
C17_ReferenceAmongLoaded ==
    \/ multiTelemetry.referenceLap = none
    \/ multiTelemetry.referenceLap \in loadedLaps(multiTelemetry)

\* The outline lap of a lap set: the first lap with position data, none
\* when there is no such lap.
OutlineLap(data) ==
    IF tmScans(data) = 0 THEN none
    ELSE data.laps[CHOOSE i \in 1..Len(data.laps) :
                       /\ hasPosition(data.laps[i])
                       /\ \A j \in 1..(i - 1) : ~hasPosition(data.laps[j])]

\* C18: after every update of the track map the stored marker list is the
\* detection result for the current outline lap, and is empty when there
\* is no outline lap or when it yields no markers (too few samples
\* included).
C18_TurnMarkersOfCurrentOutline ==
    trackMap.lastData # none =>
        trackMap.turnMarkers =
            IF OutlineLap(trackMap.lastData) = none THEN <<>>
            ELSE detectTurns(OutlineLap(trackMap.lastData).telemetry)

\* C19: an interactive event on the laps already loaded (a cursor move
\* through setSelectedDistance, or a resize) does not run the corner scan.
C19_NoScanOnInteraction ==
    lastCall.op \in {"trackMap.setSelectedDistance", "trackMap.resize"} =>
        lastCall.found.scans = 0

\* ------------------------------------------------------------------------
\* Delta estimator without a usable reference lap, on bounded inputs
\* ------------------------------------------------------------------------

\* this.referenceLap is null, or a lap object without telemetry.
NoReferences == {none, [oid |-> 1]}

InitNoReference ==
    /\ ChartInit
    /\ ret = Pending
    /\ \E n \in 1..MaxRefSamples : \E t \in [1..n -> DeltaSamples] :
       \E k \in 1..n : \E ref \in NoReferences :
          arg = [point |-> t[k], lap |-> Lap(2, t), referenceLap |-> ref]

SpecNoReference == InitNoReference /\ [][Estimate]_vars

\* C20: when no reference lap is set, or the reference lap has no
\* telemetry, the delta is 0 for every sample of every lap and nothing is
\* thrown.
C20_NoReferenceDeltaZero ==
    (ret.done /\ (arg.referenceLap = none \/ ~HasTelemetry(arg.referenceLap)))
        => ret.delta = Returned(0)

\* No reference lap set, and a timed sample for which a reference sample
\* would give a non-zero delta.
C20_Witness ==
    /\ ret.done /\ arg.referenceLap = none
    /\ arg.point.time_ms = 2500 /\ arg.point.speed = 250
    /\ Len(arg.lap.telemetry) = 2
    /\ ret.delta = Returned(0)

\* ------------------------------------------------------------------------
\* Properties of the track projection
\* ------------------------------------------------------------------------

\* Extents of the data and of its projection, from the scales assigned.
DataWidthOf(sc) == sc.xScale.domain[2] - sc.xScale.domain[1]
DataHeightOf(sc) == sc.yScale.domain[2] - sc.yScale.domain[1]
ProjectedWidthOf(sc) == NumSub(sc.xScale.range[2], sc.xScale.range[1])
ProjectedHeightOf(sc) == NumSub(sc.yScale.range[1], sc.yScale.range[2])

\* C12: for position samples with non-zero width and height extents and a
\* positive viewport, one finite positive scale is applied to both axes
\* (projected width = data width * scale, projected height = data height *
\* scale), so projectedWidth / projectedHeight = dataWidth / dataHeight.
C12_AspectRatioPreserved ==
    (ret.done /\ ret.scales # none) =>
        LET sc == ret.scales
        IN  (DataWidthOf(sc) > 0 /\ DataHeightOf(sc) > 0) =>
               /\ Finite(sc.scale) /\ sc.scale.n > 0
               /\ NumEq(ProjectedWidthOf(sc),
                        NumMulInt(DataWidthOf(sc), sc.scale))
               /\ NumEq(ProjectedHeightOf(sc),
                        NumMulInt(DataHeightOf(sc), sc.scale))
               /\ NumEq(NumMulInt(DataHeightOf(sc), ProjectedWidthOf(sc)),
                        NumMulInt(DataWidthOf(sc), ProjectedHeightOf(sc)))

\* A 3 x 1 track in a 300 x 700 viewport is fitted to the width: scale 100,
\* projected 300 x 100 and centred vertically (offsetY = 300).
C12_Witness ==
    /\ ret.done /\ ret.scales # none
    /\ arg.width = 300 /\ arg.height = 700
    /\ DataWidthOf(ret.scales) = 3 /\ DataHeightOf(ret.scales) = 1
    /\ NumEq(ret.scales.scale, Num(100, 1))
    /\ NumEq(ProjectedWidthOf(ret.scales), Num(300, 1))
    /\ NumEq(ProjectedHeightOf(ret.scales), Num(100, 1))
    /\ NumEq(ret.scales.offsetY, Num(300, 1))

\* C13: with no position samples, or a zero-width or zero-height extent
\* (a single sample included), the projector either assigns nothing or
\* assigns scales whose scale factor, offsets and ranges are finite.
C13_DegenerateGeometrySafe ==
    (ret.done /\ ret.scales # none) =>
        LET sc == ret.scales
        IN  (DataWidthOf(sc) = 0 \/ DataHeightOf(sc) = 0) =>
               /\ Finite(sc.scale)
               /\ Finite(sc.offsetX) /\ Finite(sc.offsetY)
               /\ \A k \in 1..2 : /\ Finite(sc.xScale.range[k])
                                  /\ Finite(sc.yScale.range[k])

\* ------------------------------------------------------------------------
\* Minimum corner separation
\* ------------------------------------------------------------------------

\* The distance between the two dips of a "twoDips" profile.
DipSeparation(a) == a.gap * a.step

\* The markers are the samples (1-based indexes) in idx, in this order.
MarkersAt(a, turns, idx) ==
    /\ Len(turns) = Len(idx)
    /\ \A k \in 1..Len(idx) :
          /\ turns[k].x = idx[k]
          /\ turns[k].distance = (idx[k] - 1) * a.step
          /\ turns[k].index = k

\* C11 as stated: two dips no more than D = 200 apart in distance yield
\* exactly one marker, two dips farther apart than D exactly two.
C11_SeparationDecidesCount ==
    (ret.done /\ arg.shape = "twoDips") =>
        IF DipSeparation(arg) <= minTurnGap
        THEN Len(ret.turns) = 1
        ELSE Len(ret.turns) = 2

\* The two dips shadow each other: they are within the local-minimum
\* radius (5 samples) of one another and differ in depth.
Shadowed(a) == a.gap <= vicinity /\ a.depth1 # a.depth2

\* C11, amended: for two one-sample dips that are equally deep or more than
\* 5 samples apart, the first dip always gets a marker and the second dip
\* gets one exactly when it is more than D = 200 distance units behind the
\* first; of two dips of different depth within 5 samples of each other
\* only the deeper one gets a marker, whatever their distance.
C11_SeparationDecidesCountUnshadowed ==
    (ret.done /\ arg.shape = "twoDips") =>
        LET first == arg.centre + 1
            second == arg.centre + arg.gap + 1
        IN  IF Shadowed(arg)
            THEN MarkersAt(arg, ret.turns,
                     IF arg.depth1 < arg.depth2 THEN <<first>>
                     ELSE <<second>>)
            ELSE IF DipSeparation(arg) <= minTurnGap
            THEN MarkersAt(arg, ret.turns, <<first>>)
            ELSE MarkersAt(arg, ret.turns, <<first, second>>)

\* Both cases of the separation rule on equally deep dips 10 samples apart:
\* 200 distance units apart gives the first dip only, and (C11_WitnessFar)
\* 340 units apart gives both.
C11_Witness ==
    /\ ret.done /\ arg.shape = "twoDips"
    /\ arg.gap = 10 /\ arg.step = 20 /\ arg.depth1 = arg.depth2
    /\ Len(ret.turns) = 1 /\ ret.turns[1].distance = 600

C11_WitnessFar ==
    /\ ret.done /\ arg.shape = "twoDips"
    /\ arg.gap = 10 /\ arg.step = 34 /\ arg.depth1 = arg.depth2
    /\ Len(ret.turns) = 2
    /\ ret.turns[1].distance = 1020 /\ ret.turns[2].distance = 1360

\* ------------------------------------------------------------------------
\* The delta band: the line drawn by drawChannelData for the delta channel
\* ------------------------------------------------------------------------

\* scale.y(v) of a channel: d3.scaleLinear().domain(domain)
\* .range([yOffset + channelHeight, yOffset]) applied to the value v, a
\* fraction in hundredths of the channel's unit, as the domain is; the
\* result is in hundredths of a pixel.  A linear scale does not clamp:
\* values outside the domain are extrapolated.
scaleY(band, v) ==
    LET lo == band.domain[1]
        hi == band.domain[2]
    IN  Num((band.offset + band.height) * v.d * (hi - lo)
                - (v.n - lo * v.d) * band.height,
            v.d * (hi - lo))

\* drawChannelData for channel 'delta': the points of the path, one per
\* sample of the lap, each with the value returned by getValue (ms) and
\* its y coordinate scale.y(getValue(d)); no path data when calculateDelta
\* throws inside the line generator.  scale.y(NaN) is NaN.
drawDeltaLine(lap, referenceLap, band) ==
    LET results == [k \in 1..Len(lap.telemetry) |->
                       calculateDelta(lap.telemetry[k], lap, referenceLap)]
    IN  IF \E k \in 1..Len(results) : results[k].threw THEN <<>>
        ELSE [k \in 1..Len(results) |->
                 [value |-> results[k].value,
                  y |-> IF results[k].value = NotANumber THEN NaN
                        ELSE scaleY(band, Num(results[k].value, 10))]]

\* Samples at distance 0 with no time offset or a time offset up to 5 s,
\* at two speeds, and a sample with no time offset and no speed property.
BandSamples ==
    {Pt(0, t, sp, null, null) : t \in {null, 500, 1000, 5000},
                                sp \in {100, 350}}
    \cup {Pt(0, null, undefined, null, null)}

\* A reference lap of one sample, a comparison lap and the chart height.
InitDeltaBand ==
    /\ ChartInit
    /\ ret = Pending
    /\ \E n \in 1..MaxRefSamples : \E t \in [1..n -> BandSamples] :
       \E r \in BandSamples : \E h \in {400, 550} :
          arg = [referenceLap |-> Lap(1, <<r>>), lap |-> Lap(2, t),
                 height |-> h]

\* update of the multi-channel chart with the two laps, the delta channel
\* of the comparison lap: setupScales lays out the bands, drawChannelData
\* draws the line.
DrawDelta ==
    /\ ~ret.done
    /\ ret' = LET data == [laps |-> <<arg.referenceLap, arg.lap>>,
                           selectedDistance |-> undefined]
                  bands == setupChannelScales(data, arg.height, none)
              IN  [done |-> TRUE,
                   band |-> bands[2],
                   line |-> drawDeltaLine(arg.lap,
                                setupScalesReference(data, none), bands[2])]
    /\ UNCHANGED <<app, lapTable, arg, rect, telemetryChart, multiTelemetry, trackMap, lastCall>>

SpecDeltaBand == InitDeltaBand /\ [][DrawDelta]_vars

\* y lies in the band's vertical extent [offset, offset + height].
InBand(band, y) ==
    /\ Finite(y)
    /\ band.offset * y.d <= y.n
    /\ y.n <= (band.offset + band.height) * y.d

\* C21: every delta value plotted in the delta band lies within [-2, 2]
\* seconds (here in ms), and its point inside the band's vertical extent,
\* whatever the computed delta is.
C21_DeltaPlottedWithinTwoSeconds ==
    ret.done =>
        \A k \in 1..Len(ret.line) :
            /\ ret.line[k].value >= 0 - 2000
            /\ ret.line[k].value <= 2000
            /\ InBand(ret.band, ret.line[k].y)

\* ------------------------------------------------------------------------
\* The corner detector against its rule, sample by sample
\* ------------------------------------------------------------------------

\* The samples (1-based indices into points) at which a marker was
\* emitted; the profiles give sample k the position x = k.
EmittedAt(turns) == {turns[k].x : k \in 1..Len(turns)}

\* Sample i (1-based) is inside the scan range, slower than 0.85 times the
\* mean of the 2W samples around it, and no sample within w of it is
\* strictly slower.
ApexCandidate(points, i) ==
    /\ windowSize + 1 <= i /\ i <= Len(points) - windowSize
    /\ points[i].speed * 2 * windowSize * 100
           < speedThresholdPct
                 * sumSurrounding(points, i - windowSize, i + windowSize, i)
    /\ \A j \in ((i - vicinity)..(i + vicinity)) \ {i} :
           (j >= 1 /\ j <= Len(points)) =>
               points[j].speed >= points[i].speed

\* C22: a marker is emitted at sample i exactly when i is a candidate in
\* range that is a local minimum and either no marker was emitted before
\* it or distance[i] - lastMarker.distance > D; the k-th marker carries
\* index k and the distance, x, y and speed of its sample.
C22_MarkerExactlyAtConfirmedCandidates ==
    ret.done =>
        LET points == turnPoints(ProfileTelemetry(arg))
            emitted == EmittedAt(ret.turns)
            before(i) == {j \in emitted : j < i}
            last(i) == CHOOSE j \in before(i) : \A m \in before(i) : m <= j
        IN  /\ emitted \subseteq 1..Len(points)
            /\ \A i \in 1..Len(points) :
                  i \in emitted <=>
                      /\ ApexCandidate(points, i)
                      /\ \/ before(i) = {}
                         \/ points[i].distance - points[last(i)].distance
                                > minTurnGap
            /\ \A k \in 1..Len(ret.turns) :
                  /\ ret.turns[k].index = k
                  /\ ret.turns[k].distance = points[ret.turns[k].x].distance
                  /\ ret.turns[k].y = points[ret.turns[k].x].y
                  /\ ret.turns[k].speed = points[ret.turns[k].x].speed
                  /\ \A m \in 1..(k - 1) : ret.turns[m].x < ret.turns[k].x

\* ------------------------------------------------------------------------
\* The corner detector on short laps: every length up to MaxLen, with one
\* slow sample before, at or behind the middle of the lap
\* ------------------------------------------------------------------------

ShortLapInputs ==
    {[shape |-> "notch", base |-> 300, n |-> n, step |-> st,
      order |-> "asc", centre |-> c, depth |-> 100] :
        n \in 0..MaxLen, st \in {1, 201}, c \in {5, 19, 20, 21, 30}}

InitShortLap == ChartInit /\ arg \in ShortLapInputs /\ ret = Pending

SpecShortLap == InitShortLap /\ [][Detect]_vars

\* C23: a lap with fewer than 2W + 1 = 41 usable samples yields no corner
\* markers; a lap with exactly 41 samples has the one candidate index 20
\* (sample 21 counted from 1): it yields the marker of that sample when the
\* sample is slower than 0.85 times the mean of the 40 others and none of
\* its neighbours is slower, and no marker otherwise.
C23_ShortLapNoMarkers ==
    ret.done =>
        LET points == turnPoints(ProfileTelemetry(arg))
        IN  /\ Len(points) < 2 * windowSize + 1 => ret.turns = <<>>
            /\ Len(points) = 2 * windowSize + 1 =>
                   /\ EmittedAt(ret.turns) \subseteq {windowSize + 1}
                   /\ Len(ret.turns) <= 1
                   /\ (ret.turns # <<>>)
                          <=> ApexCandidate(points, windowSize + 1)

\* A lap of 41 samples whose sample at index 20 is the slow one: one
\* marker, at that sample.
C23_Witness ==
    /\ ret.done /\ arg.shape = "notch" /\ arg.n = 41 /\ arg.centre = 20
    /\ Len(ret.turns) = 1
    /\ ret.turns[1].x = 21 /\ ret.turns[1].speed = 100

\* A lap of 40 samples with a slow sample in the middle: no marker.
C23_WitnessShort ==
    /\ ret.done /\ arg.shape = "notch" /\ arg.n = 40 /\ arg.centre = 20
    /\ ret.turns = <<>>

\* ------------------------------------------------------------------------
\* Validity of the channel bands
\* ------------------------------------------------------------------------

\* The vertical extent of a band, in hundredths of a pixel.
BandTop(band) == band.offset
BandBottom(band) == band.offset + band.height

\* C24: for any positive total height there is one band per channel, in
\* channel order, of height totalHeight x weight - padding, each starting
\* one padding below the end of the band before it; every band is a valid
\* interval (height >= 0), no two bands overlap and every band lies within
\* [0, totalHeight].
C24_BandsValidForPositiveHeight ==
    (ret.done /\ ret.channelScales # none /\ arg.height > 0) =>
        LET bands == ret.channelScales
        IN  /\ Len(bands) = Len(channels)
            /\ \A k \in 1..Len(bands) :
                  /\ bands[k].channel = channels[k]
                  /\ bands[k].height
                         = arg.height * channelHeights[channels[k]]
                               - padding * 100
                  /\ bands[k].offset =
                         IF k = 1 THEN 0
                         ELSE BandBottom(bands[k - 1]) + padding * 100
                  /\ bands[k].height >= 0
                  /\ BandTop(bands[k]) >= 0
                  /\ BandBottom(bands[k]) <= arg.height * 100
            /\ \A k \in 1..(Len(bands) - 1) :
                  BandBottom(bands[k]) <= BandTop(bands[k + 1])

\* ------------------------------------------------------------------------
\* The projected extent inside the viewport
\* ------------------------------------------------------------------------

\* x <= y for finite numbers.
NumLe(x, y) == Finite(x) /\ Finite(y) /\ x.n * y.d <= y.n * x.d

\* C25: for position samples with non-zero width and height extents and a
\* positive viewport the projected extent lies within [0, width] x
\* [0, height], its left and right margins are equal, its top and bottom
\* margins are equal, and the larger data y has the smaller screen y.
C25_ProjectionCentredAndBounded ==
    (ret.done /\ ret.scales # none) =>
        LET sc == ret.scales
            left == sc.xScale.range[1]
            right == sc.xScale.range[2]
            bottom == sc.yScale.range[1]
            top == sc.yScale.range[2]
            zero == Num(0, 1)
            w == Num(arg.width, 1)
            h == Num(arg.height, 1)
        IN  (/\ DataWidthOf(sc) > 0 /\ DataHeightOf(sc) > 0
             /\ arg.width > 0 /\ arg.height > 0) =>
               /\ NumLe(zero, left) /\ NumLe(left, right) /\ NumLe(right, w)
               /\ NumLe(zero, top) /\ NumLe(top, bottom) /\ NumLe(bottom, h)
               /\ NumEq(left, NumSub(w, right))
               /\ NumEq(top, NumSub(h, bottom))
               \* yScale maps domain[1] (min y) to bottom, domain[2] to top
               /\ sc.yScale.domain[1] < sc.yScale.domain[2]
               /\ ~NumLe(bottom, top)

\* A 3 x 1 track in a 960 x 560 viewport: fitted to the width (scale 320),
\* x range [0, 960], y range [440, 120] with margins of 120 above and
\* below.
C25_Witness ==
    /\ ret.done /\ ret.scales # none
    /\ arg.width = 960 /\ arg.height = 560
    /\ DataWidthOf(ret.scales) = 3 /\ DataHeightOf(ret.scales) = 1
    /\ NumEq(ret.scales.xScale.range[1], Num(0, 1))
    /\ NumEq(ret.scales.xScale.range[2], Num(960, 1))
    /\ NumEq(ret.scales.yScale.range[1], Num(440, 1))
    /\ NumEq(ret.scales.yScale.range[2], Num(120, 1))

\* ------------------------------------------------------------------------
\* Loads and window resizes: the scales of the three telemetry charts.
\* Here ret holds the scale objects that are not part of the chart records:
\* this.channelScales of the multi-channel chart and the projection
\* (xScale, yScale) of the track map, as the last setupScales left them.
\* ------------------------------------------------------------------------

\* The rects the chart containers can have; a container that is not laid
\* out has width and height 0.
ResizeRects ==
    {[width |-> 1000, height |-> 600], [width |-> 800, height |-> 500],
     [width |-> 1200, height |-> 600], [width |-> 0, height |-> 0]}

\* Lap sets of timed, positioned laps.
ResizeDatas ==
    {[laps |-> l, selectedDistance |-> undefined] :
        l \in {q \in UNION {[1..n -> {lap \in LapPool : lap.oid \in {2, 3}}] :
                               n \in 0..MaxLaps} :
                  \A i, j \in 1..Len(q) : i # j => q[i].oid # q[j].oid}}

\* The scale objects held in ret, none before the first setupScales.
ScalesOf(r, field) == IF r.done THEN r[field] ELSE none

\* loadTelemetryComparison, from the response of request i on, with the
\* scales assigned by the setupScales calls of the three updates.
ResizeLoad(i) ==
    /\ i \in 1..Len(app.inflight)
    /\ app.inflight[i].kind = "comparison"
    /\ LET data == app.inflight[i].data
           mt == mtUpdate(multiTelemetry, data, multiTelemetry.referenceLap,
                          rect)
           tm == tmUpdate(trackMap, data, rect)
       IN
        /\ telemetryChart' = tcUpdate(telemetryChart, data, rect)
        /\ multiTelemetry' = mt
        /\ trackMap' = IF mt.threw THEN trackMap ELSE tm
        /\ app' = receiveResponse(app, i, ~mt.threw)
        /\ ret' = [done |-> TRUE,
                   channelScales |->
                       setupChannelScales(data, mt.height,
                                          ScalesOf(ret, "channelScales")),
                   scales |->
                       IF mt.threw THEN ScalesOf(ret, "scales")
                       ELSE tmSetupScales(data, tm.width, tm.height,
                                          ScalesOf(ret, "scales"))]
        /\ lastCall' = Called("loadTelemetryComparison", none, none)
        /\ UNCHANGED <<lapTable, rect, arg>>

NextResize ==
    \/ \E data \in ResizeDatas :
          Len(app.inflight) < MaxPending /\ RequestComparison(data)
    \/ \E i \in 1..MaxPending : ResizeLoad(i)
    \/ \E i \in 1..MaxPending : TelemetryRequestFails(i)
    \/ \E r \in ResizeRects : HandleResize(r)

SpecResize == Init /\ [][NextResize]_vars

\* C26: after handleResize, every chart that holds last data has scales
\* whose pixel ranges are those update(lastData) would assign at the
\* chart's current width and height: the x scales of the speed chart and
\* of the multi-channel chart, the channel bands, the track projection.
C26_ScalesFollowResize ==
    lastCall.op = "handleResize" =>
        /\ telemetryChart.lastData # none =>
               telemetryChart.xScale
                   = setupXScale(telemetryChart.lastData,
                                 telemetryChart.xScale, telemetryChart.width)
        /\ multiTelemetry.lastData # none =>
               /\ multiTelemetry.xScale
                      = setupXScale(multiTelemetry.lastData,
                                    multiTelemetry.xScale,
                                    multiTelemetry.width)
               /\ ret.channelScales
                      = setupChannelScales(multiTelemetry.lastData,
                                           multiTelemetry.height,
                                           ret.channelScales)
        /\ trackMap.lastData # none =>
               ret.scales = tmSetupScales(trackMap.lastData, trackMap.width,
                                          trackMap.height, ret.scales)

\* ------------------------------------------------------------------------
\* Telemetry loads as requests and responses: loadTelemetryComparison and
\* loadSingleLapTelemetry run up to their await, and resume when the
\* response of their request arrives; responses arrive in any order.
\* ------------------------------------------------------------------------

\* The lap sets the server answers with: one lap, another lap, both.
LoadDatas ==
    {d \in ResizeDatas : Len(d.laps) >= 1}

\* The laps a chart displays.
DisplayedLaps(chart) ==
    IF chart.lastData = none THEN <<>> ELSE chart.lastData.laps

\* C27: once the responses of all requests sent have arrived, in whatever
\* order, the three telemetry charts display the laps of the request sent
\* last; and the loading overlay is hidden only when no request is in
\* flight.
C27_LatestRequestWins ==
    /\ (app.inflight = <<>> /\ app.latest # none) =>
           LET latest == app.latest.laps
           IN  /\ DisplayedLaps(telemetryChart) = latest
               /\ DisplayedLaps(multiTelemetry) = latest
               /\ DisplayedLaps(trackMap) = latest
    /\ app.loadingHidden => app.inflight = <<>>

\* C28: after a telemetry load has finished, by success or by an error
\* caught part-way, the speed chart, the multi-channel chart and the track
\* map hold the same lap set as their last data.
C28_ChartsHoldSameLapsAfterLoad ==
    lastCall.op \in {"loadTelemetryComparison", "loadSingleLapTelemetry"} =>
        /\ DisplayedLaps(telemetryChart) = DisplayedLaps(multiTelemetry)
        /\ DisplayedLaps(multiTelemetry) = DisplayedLaps(trackMap)

\* ------------------------------------------------------------------------
\* DRS channel: the rectangles drawn by drawChannelData for channel 'drs'
\* ------------------------------------------------------------------------

\* point.drs; undefined when the sample has no such property.
drsOf(p) == IF "drs" \in DOMAIN p THEN p.drs ELSE undefined

\* const drsOn = point.drs && point.drs > 0
drsOn(p) == Truthy(drsOf(p)) /\ drsOf(p) > 0

\* lap.telemetry.forEach((point, i) => ...) from sample k on: drsStart is
\* the distance at which the open run started (null when none is open),
\* rects the rectangles appended so far, each from xScale(drsStart) to
\* xScale(point.distance), given here by the two distances.
RECURSIVE drsScan(_, _, _, _)
drsScan(telemetry, k, drsStart, rects) ==
    IF k > Len(telemetry) THEN rects
    ELSE IF drsOn(telemetry[k]) /\ drsStart = null
    THEN drsScan(telemetry, k + 1, telemetry[k].distance, rects)
    ELSE IF ~drsOn(telemetry[k]) /\ drsStart # null
    THEN drsScan(telemetry, k + 1, null,
                 Append(rects, [from |-> drsStart,
                                to |-> telemetry[k].distance]))
    ELSE drsScan(telemetry, k + 1, drsStart, rects)

\* drawChannelData for channel 'drs': "let drsStart = null" and the loop.
drawDrs(lap) == drsScan(lap.telemetry, 1, null, <<>>)

\* The most samples of a lap in the DRS channel.
MaxDrsSamples == 4

\* Sample k of a lap, 10 distance units after the sample before it, with
\* the drs value given: missing, 0 (closed), or 1 or 12 (open).
DrsSample(k, v) ==
    [distance |-> 10 * (k - 1), time_ms |-> null, speed |-> 300,
     x |-> null, y |-> null, drs |-> v]

InitDrs ==
    /\ ChartInit
    /\ ret = Pending
    /\ \E n \in 1..MaxDrsSamples : \E v \in [1..n -> {null, 0, 1, 12}] :
          arg = Lap(1, [k \in 1..n |-> DrsSample(k, v[k])])

DrawDrsChannel ==
    /\ ~ret.done
    /\ ret' = [done |-> TRUE, rects |-> drawDrs(arg)]
    /\ UNCHANGED <<app, lapTable, arg, rect, telemetryChart, multiTelemetry,
                   trackMap, lastCall>>

SpecDrs == InitDrs /\ [][DrawDrsChannel]_vars

\* The first samples of the maximal runs of consecutive samples with
\* drs > 0.
DrsRunStarts(telemetry) ==
    {k \in 1..Len(telemetry) :
        /\ ~Nullish(drsOf(telemetry[k])) /\ drsOf(telemetry[k]) > 0
        /\ (k = 1 \/ Nullish(drsOf(telemetry[k - 1]))
                  \/ drsOf(telemetry[k - 1]) <= 0)}

\* C29: every maximal run of consecutive samples with drs > 0 gives
\* exactly one rectangle, starting at the distance of the run's first
\* sample, a run that lasts to the lap's last sample included: there are
\* as many rectangles as runs.
C29_OneRectanglePerDrsRun ==
    ret.done =>
        LET starts == DrsRunStarts(arg.telemetry)
        IN  /\ Len(ret.rects) = Cardinality(starts)
            /\ {ret.rects[k].from : k \in 1..Len(ret.rects)}
                   = {arg.telemetry[k].distance : k \in starts}

\* ------------------------------------------------------------------------
\* LapTimesTable: selection and compare button.  A lap is given by its id;
\* compareBtn is the button object this.compareBtn refers to, with the
\* count in its text and its disabled flag; buttonShown tells whether that
\* button is in the container.
\* ------------------------------------------------------------------------

\* The most laps in the table.
MaxTableLaps == 3

LapIds == 1..MaxTableLaps

\* The sortable columns used.
SortColumns == {"lap_number", "lap_time_seconds"}

\* createControls: a new button "Compare Selected (0)", disabled.
createControls == [count |-> 0, disabled |-> TRUE]

\* render(): the container is cleared; without laps only the no-data text
\* is added and this.compareBtn keeps the removed button; with laps the
\* controls are created anew and the rows are built from this.laps, each
\* checkbox checked when its lap is in selectedLaps.
ltRender(t) ==
    IF t.laps = {} THEN [t EXCEPT !.buttonShown = FALSE]
    ELSE [t EXCEPT !.compareBtn = createControls, !.buttonShown = TRUE]

\* updateCompareButton()
updateCompareButton(t) ==
    IF t.compareBtn = none THEN t
    ELSE [t EXCEPT !.compareBtn =
                       [count |-> Cardinality(t.selectedLaps),
                        disabled |-> Cardinality(t.selectedLaps) < 2]]

\* update(data, drivers)
ltUpdate(t, data) == ltRender([t EXCEPT !.laps = data])

\* handleSort(column)
ltHandleSort(t, column) ==
    ltRender(IF t.sortColumn = column
             THEN [t EXCEPT !.sortDirection =
                                IF @ = "asc" THEN "desc" ELSE "asc"]
             ELSE [t EXCEPT !.sortColumn = column, !.sortDirection = "asc"])

\* handleLapSelect(lap, checked)
ltHandleLapSelect(t, id, checked) ==
    updateCompareButton(
        [t EXCEPT !.selectedLaps = IF checked THEN @ \cup {id} ELSE @ \ {id}])

\* clearSelection()
ltClearSelection(t) == updateCompareButton([t EXCEPT !.selectedLaps = {}])

\* app.lapTable.update(filteredLaps, drivers)
LapTableUpdate(data) ==
    /\ lapTable' = ltUpdate(lapTable, data)
    /\ lastCall' = Called("lapTable.update", none, none)
    /\ UNCHANGED <<app, rect, telemetryChart, multiTelemetry, trackMap,
                   arg, ret>>

\* click on the header of a sortable column of the rendered table
LapTableSort(column) ==
    /\ lapTable.buttonShown
    /\ lapTable' = ltHandleSort(lapTable, column)
    /\ lastCall' = Called("lapTable.handleSort", none, none)
    /\ UNCHANGED <<app, rect, telemetryChart, multiTelemetry, trackMap,
                   arg, ret>>

\* change of the checkbox of a rendered row: the checkbox, which shows
\* whether the lap is selected, is toggled.
LapTableSelect(id) ==
    /\ id \in lapTable.laps
    /\ lapTable' = ltHandleLapSelect(lapTable, id,
                                     id \notin lapTable.selectedLaps)
    /\ lastCall' = Called("lapTable.handleLapSelect", none, none)
    /\ UNCHANGED <<app, rect, telemetryChart, multiTelemetry, trackMap,
                   arg, ret>>

\* lapTable.clearSelection()
LapTableClearSelection ==
    /\ lapTable' = ltClearSelection(lapTable)
    /\ lastCall' = Called("lapTable.clearSelection", none, none)
    /\ UNCHANGED <<app, rect, telemetryChart, multiTelemetry, trackMap,
                   arg, ret>>

NextLapTable ==
    \/ \E data \in SUBSET LapIds : LapTableUpdate(data)
    \/ \E column \in SortColumns : LapTableSort(column)
    \/ \E id \in LapIds : LapTableSelect(id)
    \/ LapTableClearSelection

SpecLapTable == Init /\ [][NextLapTable]_vars

\* C30: after any sequence of lap select and deselect, column sort, table
\* update and clearSelection, the compare button on display shows the
\* number of selected laps and is enabled exactly when at least 2 laps are
\* selected.
C30_CompareButtonAgreesWithSelection ==
    lapTable.buttonShown =>
        /\ lapTable.compareBtn.count = Cardinality(lapTable.selectedLaps)
        /\ lapTable.compareBtn.disabled
               <=> (Cardinality(lapTable.selectedLaps) < 2)

\* ------------------------------------------------------------------------
\* The loaders that share the loading overlay: the telemetry loads, the
\* session load (loadSessionData) and the prediction load (loadPrediction)
\* ------------------------------------------------------------------------

\* The most loadSessionData calls suspended at a time.
MaxSessionLoads == 1

\* The most loadPrediction calls suspended at a time.
MaxPredictionLoads == 1

\* loadSessionData up to its first await (api.ingestSession):
\* showLoading(true) and updateChartsYear, which assigns only the year of
\* the charts.
LoadSessionData ==
    /\ Len(app.sessions) < MaxSessionLoads
    /\ app' = [app EXCEPT !.sessions = Append(@, "requested"),
                          !.loadingHidden = FALSE]
    /\ lastCall' = Called("loadSessionData:await", none, none)
    /\ UNCHANGED <<lapTable, rect, telemetryChart, multiTelemetry, trackMap,
                   arg, ret>>

\* loadSessionData from the response of api.getSessionLaps (laps, the
\* laps of the session) to the await of updateAllCharts: updateLapTable
\* runs at once; it returns early when the session has no laps, and
\* otherwise gives the table the laps the filters leave (filtered), which
\* may be none.
SessionLapsArrive(i, laps, filtered) ==
    /\ i \in 1..Len(app.sessions)
    /\ app.sessions[i] = "requested"
    /\ filtered \subseteq laps
    /\ app' = [app EXCEPT !.sessions[i] = "charts"]
    /\ lapTable' = IF laps = {} THEN lapTable
                   ELSE ltUpdate(lapTable, filtered)
    /\ lastCall' = Called("updateAllCharts", none, none)
    /\ UNCHANGED <<rect, telemetryChart, multiTelemetry, trackMap, arg, ret>>

\* loadSessionData reaches "finally", after updateAllCharts or after the
\* catch block of a failed await: showLoading(false).
SessionLoadEnds(i) ==
    /\ i \in 1..Len(app.sessions)
    /\ app' = [app EXCEPT !.sessions = RemoveAt(@, i),
                          !.loadingHidden = TRUE]
    /\ lastCall' = Called("loadSessionData", none, none)
    /\ UNCHANGED <<lapTable, rect, telemetryChart, multiTelemetry, trackMap,
                   arg, ret>>

\* loadPrediction up to its await: showLoading(true).
LoadPrediction ==
    /\ app.predictions < MaxPredictionLoads
    /\ app' = [app EXCEPT !.predictions = @ + 1, !.loadingHidden = FALSE]
    /\ lastCall' = Called("loadPrediction:await", none, none)
    /\ UNCHANGED <<lapTable, rect, telemetryChart, multiTelemetry, trackMap,
                   arg, ret>>

\* loadPrediction from the response or the failure on: the prediction
\* chart and table (not among the telemetry charts) are updated or the
\* catch block alerts, and "finally" calls showLoading(false).
PredictionLoadEnds ==
    /\ app.predictions > 0
    /\ app' = [app EXCEPT !.predictions = @ - 1, !.loadingHidden = TRUE]
    /\ lastCall' = Called("loadPrediction", none, none)
    /\ UNCHANGED <<lapTable, rect, telemetryChart, multiTelemetry, trackMap,
                   arg, ret>>

NextLoads ==
    \/ \E data \in LoadDatas : RequestComparison(data)
    \/ \E data \in LoadDatas : RequestSingleLap(data)
    \/ \E i \in 1..MaxRequests : LoadTelemetryComparison(i)
    \/ \E i \in 1..MaxRequests : LoadSingleLapTelemetry(i)
    \/ \E i \in 1..MaxRequests : TelemetryRequestFails(i)
    \/ LoadSessionData
    \/ \E i \in 1..MaxSessionLoads : \E laps \in SUBSET LapIds :
       \E filtered \in SUBSET laps : SessionLapsArrive(i, laps, filtered)
    \/ \E i \in 1..MaxSessionLoads : SessionLoadEnds(i)
    \/ LoadPrediction
    \/ PredictionLoadEnds

SpecLoads == Init /\ [][NextLoads]_vars

====
